---- MODULE Spec2Model ----
(***************************************************************************)
(* Model of doodle_monitor/optimized_payload_monitor.py: the edge-coloured *)
(* schedule builder (edge_coloring_schedule) and the time-slotted test     *)
(* runner of the EdgePayloadMonitor node (edge_slot_runner, peer_list_cb,  *)
(* run_ping, run_iperf).                                                   *)
(*                                                                         *)
(* Time is counted in units of 0.05 s, the greatest common divisor of the  *)
(* timing constants of the module, and arithmetic on it is exact.  The     *)
(* statements of a callback other than the two subprocess calls and the    *)
(* sleep take no time.                                                     *)
(***************************************************************************)
EXTENDS Integers, Sequences, FiniteSets, TLC

\* ------------------------------------------------------------------------
\* Bounds of the model
\* ------------------------------------------------------------------------

\* Largest number of node addresses handed to the schedule builder.
MaxNodes == 4

\* The addresses the builder's inputs are drawn from.
Addr == 1..MaxNodes

\* Number of hosts of hostname_to_ip_mapping; each may run a monitor.
NumHosts == 3

\* A run of the monitors starts at the beginning of one of the slots
\* 0..MaxStartSlot of wall-clock time.
MaxStartSlot == 5

\* The monitors are observed for one whole slot and for Overrun time units of
\* the slot after it.
Overrun == 2

\* How often the process of a monitor is ended and started anew.
MaxRestarts == 1

\* ------------------------------------------------------------------------
\* edge_coloring_schedule
\* ------------------------------------------------------------------------

\* The set of elements of a sequence.
Range(s) == {s[i] : i \in 1..Len(s)}

\* All sequences of pairwise-distinct elements of S.
DistinctListsOf(S) ==
    UNION {{s \in [1..n -> S] : \A i, j \in 1..n : i # j => s[i] # s[j]}
           : n \in 0..Cardinality(S)}

\* All sequences of pairwise-distinct addresses of length 0..MaxNodes.
DistinctLists == DistinctListsOf(Addr)

\* A variant that also pairs every position with itself.
permutations2WithSelf(nodes) ==
    [k \in 1..(Len(nodes) * Len(nodes)) |->
        <<nodes[((k - 1) \div Len(nodes)) + 1], nodes[((k - 1) % Len(nodes)) + 1]>>]

\* list(permutations(nodes, 2)): the ordered pairs of elements at two distinct
\* positions of nodes, in lexicographic order of the positions.
permutations2(nodes) ==
    LET n == Len(nodes)
    IN  [k \in 1..(n * (n - 1)) |->
            LET i  == ((k - 1) \div (n - 1)) + 1
                jj == ((k - 1) % (n - 1)) + 1
                j  == IF jj < i THEN jj ELSE jj + 1
            IN  <<nodes[i], nodes[j]>>]

\* A variant of the filter that tests the responder instead of the initiator.
IsInitiatorEdgeOnResponder(edge, orange) == edge[2] \notin orange

\* The filter of the list comprehension: the client is not an orange box.
IsInitiatorEdge(edge, orange) == edge[1] \notin orange

\* edges after the exclusion of the orange-box initiators.
CandidateEdges(nodes, orange) ==
    SelectSeq(permutations2(nodes), LAMBDA edge : IsInitiatorEdge(edge, orange))

\* A variant of the admission test that looks at the initiator only.
AdmissibleInitiatorOnly(a, b, seen) == a \notin seen

\* The admission test of the greedy scan: neither endpoint is used in the slot.
Admissible(a, b, seen) == a \notin seen /\ b \notin seen

\* A variant of the iteration in which the order of the edges is not fixed.
IterationOrdersUnordered(edges) ==
    {edges, [i \in 1..Len(edges) |-> edges[Len(edges) + 1 - i]]}

\* The orders in which "for a, b in edges" may visit the edges: edges is a
\* list, so there is exactly one, the order of the list.
IterationOrders(edges) == {edges}

\* The for loop over edges, from position i on, with the loop's accumulators.
RECURSIVE ScanFrom(_, _, _, _, _)
ScanFrom(edges, i, slot, seen, used) ==
    IF i > Len(edges)
    THEN [slot |-> slot, used |-> used]
    ELSE LET a == edges[i][1]
             b == edges[i][2]
         IN  IF edges[i] \in used
             THEN ScanFrom(edges, i + 1, slot, seen, used)
             ELSE IF Admissible(a, b, seen)
                  THEN ScanFrom(edges, i + 1, Append(slot, edges[i]),
                                seen \cup {a, b}, used \cup {edges[i]})
                  ELSE ScanFrom(edges, i + 1, slot, seen, used)

\* A variant of the pass that begins at the second edge of the list.
ScanSlotFromSecond(edges, used) == ScanFrom(edges, 2, <<>>, {}, used)

\* A variant of the pass that places the first unused edge only.
ScanSlotOneEdge(edges, used) ==
    LET i == CHOOSE i \in 1..Len(edges) :
                 /\ edges[i] \notin used
                 /\ \A k \in 1..(i - 1) : edges[k] \in used
    IN  [slot |-> <<edges[i]>>, used |-> used \cup {edges[i]}]

\* One pass of the while loop: a fresh slot and the enlarged used set.
ScanSlot(edges, used) == ScanFrom(edges, 1, <<>>, {}, used)

\* A variant of the loop condition that gives up before the last edge.
MoreSlotsButLast(edges, used) == Cardinality(used) + 1 < Len(edges)

\* The loop condition of the while loop.
MoreSlots(edges, used) == Cardinality(used) < Len(edges)

\* The verification loop over one slot: TRUE when it raises ValueError.
RECURSIVE SlotRaises(_, _, _)
SlotRaises(slot, i, seen) ==
    IF i > Len(slot)
    THEN FALSE
    ELSE LET a == slot[i][1]
             b == slot[i][2]
         IN  IF a \in seen \/ b \in seen
             THEN TRUE
             ELSE SlotRaises(slot, i + 1, seen \cup {a, b})

\* The verification step: TRUE when some slot makes it raise ValueError.
VerificationRaises(sched) ==
    \E k \in 1..Len(sched) : SlotRaises(sched[k], 1, {})

\* The while loop run to its end (for inputs on which it ends).
RECURSIVE BuildLoop(_, _, _)
BuildLoop(edges, used, sched) ==
    IF MoreSlots(edges, used)
    THEN LET r == ScanSlot(edges, used)
         IN  BuildLoop(edges, r.used, Append(sched, r.slot))
    ELSE sched

\* The schedule returned for a node list and a set of orange-box addresses.
edge_coloring_schedule(nodes, orange) ==
    BuildLoop(CandidateEdges(nodes, orange), {}, <<>>)

\* ------------------------------------------------------------------------
\* Timing constants, in units of 0.05 s
\* ------------------------------------------------------------------------

IPERF_TIMEOUT_BUFFER == 8

PING_TIMEOUT_BUFFER == 3

GENERAL_TIMING_BUFFER == 2

IPERF_TIME == 20

SLOT_LENGTH == IPERF_TIME + IPERF_TIMEOUT_BUFFER + PING_TIMEOUT_BUFFER + GENERAL_TIMING_BUFFER

\* The value of ping's own -W option (2.0 s), which the code does not use as
\* the timeout of the subprocess.
PING_W_OPTION == 40

\* A variant that bounds the subprocess by ping's -W value.
PingTimeoutFromW == PING_W_OPTION

\* timeout= of the check_output call of run_ping.
PingTimeout == PING_TIMEOUT_BUFFER

\* A variant that grants the bandwidth probe the start window as well.
IperfTimeoutLong == IPERF_TIME + IPERF_TIMEOUT_BUFFER + GENERAL_TIMING_BUFFER

\* timeout= of the check_output call of run_iperf.
IperfTimeout == IPERF_TIME + IPERF_TIMEOUT_BUFFER


\* ------------------------------------------------------------------------
\* EdgePayloadMonitor: configuration and the pure parts of edge_slot_runner
\* ------------------------------------------------------------------------

\* list(self.hostname_to_ip_mapping.values()): the addresses of the hosts.
HostIps == [i \in 1..NumHosts |-> i]

\* The numbers of entries of hostname_to_ip_mapping the model starts from:
\* the mapping of a single host, and that of all hosts.
HostCounts == {1, NumHosts}

\* The address of the orange box, when the configuration has one.
OrangeIp == NumHosts + 1

\* The values of the parameter orange_box_ips the model starts from.
OrangeConfigs == {<<>>, <<OrangeIp>>}

\* Every address of a configuration.
AllIps == Range(HostIps) \cup {OrangeIp}

\* No address: the value None of an Optional[str].
None == 0

\* The sequence s without its element at position i.
RemoveAt(s, i) == [k \in 1..(Len(s) - 1) |-> IF k < i THEN s[k] ELSE s[k + 1]]

\* A variant that leaves the list in the order in which it is given.
sortedAsListed(s) == s

\* sorted(s): the elements of s in non-decreasing order.
RECURSIVE sorted(_)
sorted(s) ==
    IF s = <<>>
    THEN <<>>
    ELSE LET i == CHOOSE i \in 1..Len(s) :
                     /\ \A k \in 1..Len(s) : s[i] <= s[k]
                     /\ \A k \in 1..(i - 1) : s[k] # s[i]
         IN  <<s[i]>> \o sorted(RemoveAt(s, i))

\* A variant that takes the index of the slot before the current one.
SlotIdxOfEarlierSlot(now, n_slots) == ((now \div SLOT_LENGTH) + n_slots - 1) % n_slots

\* int(now // SLOT_LENGTH) % self.num_slots
SlotIdx(now, n_slots) == (now \div SLOT_LENGTH) % n_slots

\* math.floor(now / SLOT_LENGTH) * SLOT_LENGTH
SlotStart(now) == (now \div SLOT_LENGTH) * SLOT_LENGTH

\* slot_start + GENERAL_TIMING_BUFFER
EndStartWindow(slot_start) == slot_start + GENERAL_TIMING_BUFFER

\* slot_start + SLOT_LENGTH
SlotEnd(slot_start) == slot_start + SLOT_LENGTH

\* A variant of the window test without the upper end.
NowIsInStartWindowOpen(now, slot_start, end_start_window) == slot_start <= now

\* now_is_in_start_window = slot_start <= now < end_start_window
NowIsInStartWindow(now, slot_start, end_start_window) ==
    slot_start <= now /\ now < end_start_window

\* The loop that looks for this node as client of an edge of the slot: the
\* server of the first such edge, or None.
RECURSIVE MyTestPartner(_, _, _)
MyTestPartner(slotted_comms, i, my_ip) ==
    IF i > Len(slotted_comms)
    THEN None
    ELSE IF slotted_comms[i][1] = my_ip
         THEN slotted_comms[i][2]
         ELSE MyTestPartner(slotted_comms, i + 1, my_ip)

\* A variant of the reachability test that lets every partner through.
PartnerIsReachableAlways(my_test_partner, reach) == TRUE

\* The test "my_test_partner not in self.reachable", negated.
PartnerIsReachable(my_test_partner, reach) == my_test_partner \in reach

\* A variant of the wait that does not sleep.
WaitForNextSlotNoSleep(slot_end, t) == 0

\* _wait_for_next_slot: the argument of time.sleep at time t.
WaitForNextSlot(slot_end, t) == IF slot_end - t > 0 THEN slot_end - t ELSE 0

\* Ways a subprocess started by check_output ends.
ExitStatus == {"exit0", "nonzero", "timeout"}

\* Shapes of the text a finished iperf3 leaves as output: no text at all
\* (e.output is None), text that is not JSON, JSON in which the code finds no
\* end.sum_received, JSON with end.sum_received.bits_per_second, and JSON
\* on which the lookups of the throughput raise TypeError or KeyError (a
\* scalar such as null, an "end" that is no object, a "sum_received" without
\* "bits_per_second").
OutputShapes == {"none", "not_json", "no_throughput", "throughput", "bad_shape"}

\* The value of out before json.loads: the text of the subprocess, or the
\* text the except clauses put in its place.
IperfOut(status, shape) ==
    IF status = "timeout" THEN "not_json"
    ELSE IF status = "nonzero" /\ shape = "none" THEN "not_json"
    ELSE shape

\* json.loads(out) raises JSONDecodeError.
IperfOutNotJson(out) == out \in {"not_json", "none"}

\* A variant in which the throughput lookups never raise.
IperfParseRaisesNever(out) == FALSE

\* The lookups after json.loads raise an exception that run_iperf lets through.
IperfParseRaises(out) == out = "bad_shape"

\* The peer_list messages a monitor may receive: text that is not JSON, JSON
\* that is no object, an object without "peers", an object with a peer list.
PeerMsgs ==
    {[kind |-> "bad_json", peers |-> <<>>],
     [kind |-> "not_object", peers |-> <<>>],
     [kind |-> "no_peers_key", peers |-> <<>>]}
    \cup {[kind |-> "peers", peers |-> l] :
            l \in {s \in DistinctListsOf(AllIps) : \A i \in 1..(Len(s) - 1) : s[i] < s[i + 1]}}

\* The peer lists of a network in which no peer or every peer is reachable.
NetPeerMsgs ==
    {[kind |-> "peers", peers |-> <<>>],
     [kind |-> "peers", peers |-> sorted(HostIps \o <<OrangeIp>>)]}

\* ------------------------------------------------------------------------
\* The slot arithmetic of edge_slot_runner in binary floating point
\* ------------------------------------------------------------------------

\* Bits of the significand of a float (53 in CPython).  The operations below
\* are those of IEEE-754 in round-to-nearest, ties to even, at this precision.
MantissaBits == 6

\* A float is held as an integer, in units of 2^-FracBits s; the floats below
\* 2^(MantissaBits - 1) units are equally spaced (gradual underflow).
FracBits == MantissaBits + 3

\* The float 1.0.
One == 2^FracBits

\* The times time.time() may return are the floats below this many seconds.
MaxSeconds == 16

\* The numbers of slots of the schedules the arithmetic is examined with.
MaxNumSlots == 3

\* The spacing of the floats around the rational n / d: the least power of
\* two u, from u on, with n / d < 2^MantissaBits * u.
RECURSIVE Spacing(_, _, _)
Spacing(n, d, u) ==
    IF n < (2^MantissaBits) * u * d THEN u ELSE Spacing(n, d, 2 * u)

\* The float nearest to the rational n / d, ties to the even significand.
RoundNearest(n, d) ==
    LET u == Spacing(n, d, 1)
        q == n \div (d * u)
        r == n % (d * u)
    IN  IF 2 * r > d * u \/ (2 * r = d * u /\ q % 2 = 1)
        THEN (q + 1) * u
        ELSE q * u

\* x is a float.
IsFloat(x) == RoundNearest(x, 1) = x

\* The float of a decimal literal worth t time units of 0.05 s, IPERF_TIME
\* (1.0) being IPERF_TIME such units.
FloatOfUnits(t) == RoundNearest(t * One, IPERF_TIME)

\* x + y
FloatAdd(x, y) == RoundNearest(x + y, 1)

\* x / y
FloatTrueDiv(x, y) == RoundNearest(x * One, y)

\* int(x // y): x // y is the floor of the exact quotient (float_floor_div
\* takes it from fmod, which is exact).
FloatFloorDiv(x, y) == x \div y

\* math.floor(x)
Floor(x) == x \div One

\* k * y for an int k
IntTimesFloat(k, y) == RoundNearest(k * y, 1)

\* SLOT_LENGTH as the module computes it, a sum of four floats.
FLOAT_SLOT_LENGTH ==
    FloatAdd(FloatAdd(FloatAdd(FloatOfUnits(IPERF_TIME),
                               FloatOfUnits(IPERF_TIMEOUT_BUFFER)),
                      FloatOfUnits(PING_TIMEOUT_BUFFER)),
             FloatOfUnits(GENERAL_TIMING_BUFFER))

\* int(now // SLOT_LENGTH) % self.num_slots
FloatSlotIdx(now, n_slots) == FloatFloorDiv(now, FLOAT_SLOT_LENGTH) % n_slots

\* A variant that takes the slot start from the quotient of //.
FloatSlotStartFromFloorDiv(now) ==
    IntTimesFloat(FloatFloorDiv(now, FLOAT_SLOT_LENGTH), FLOAT_SLOT_LENGTH)

\* math.floor(now / SLOT_LENGTH) * SLOT_LENGTH
FloatSlotStart(now) ==
    IntTimesFloat(Floor(FloatTrueDiv(now, FLOAT_SLOT_LENGTH)), FLOAT_SLOT_LENGTH)

\* The values of time.time().
Times == {x \in 0..(MaxSeconds * One - 1) : IsFloat(x)}

\* ------------------------------------------------------------------------
\* State
\* ------------------------------------------------------------------------

VARIABLES
    \* two independent runs of edge_coloring_schedule on the same arguments
    nodes_in,        \* the argument nodes
    orange_in,       \* the argument orange_box_ips
    listed,          \* the addresses of two configurations, as listed
    run_pc,          \* position of each run
    run_edges,       \* the local edges of each run
    run_used,        \* the local used of each run
    run_schedule,    \* the local schedule of each run
    \* the EdgePayloadMonitor processes
    clock,           \* wall-clock time, time.time(), the same on every node
    deadline,        \* the time at which the observed run ends
    node_list,       \* self.node_list
    orange_box_ips,  \* self.orange_box_ips
    procs,           \* the addresses (self.my_ip) of the running monitors
    schedule,        \* self.schedule of each monitor
    num_slots,       \* self.num_slots of each monitor
    reachable,       \* self.reachable of each monitor
    pc,              \* where each monitor's executor thread is
    loc,             \* the locals of the running edge_slot_runner call
    probe,           \* the subprocess a monitor is blocked on
    ping_pub,        \* messages published on doodle_monitor/ping_result
    iperf_pub,       \* messages published on doodle_monitor/iperf_result
    launched,        \* the subprocesses each monitor has started
    restarts,        \* how often each monitor's process has been started anew
    last_peers,      \* the peer list of the last message peer_list_cb has taken in
    sampled_slot,    \* the slot in which each monitor's latest call sampled the time
    timer_due,       \* the time from which each monitor's timer is ready
    skew,            \* how far each monitor's clock is ahead of the wall clock
    \* the slot arithmetic on its own
    tick_num_slots,  \* self.num_slots
    tick_calls,      \* the locals of two successive calls of edge_slot_runner
    \* the other programs of the package
    iperf_server,    \* IperfServer: the thread of _server_loop and its iperf3 instances
    scraper,         \* LinkStateScraper: ssh_connected, the session and the scrape call
    simulator        \* schedule_tester.EdgePayloadMonitor and the loop of its main

buildVars == <<nodes_in, orange_in, listed, run_pc, run_edges, run_used, run_schedule>>

nodeVars == <<clock, deadline, node_list, orange_box_ips, procs, schedule,
              num_slots, reachable, pc, loc, probe, ping_pub, iperf_pub,
              launched, restarts, last_peers, sampled_slot, timer_due, skew>>

vars == <<nodes_in, orange_in, listed, run_pc, run_edges, run_used, run_schedule,
          clock, deadline, node_list, orange_box_ips, procs, schedule,
          num_slots, reachable, pc, loc, probe, ping_pub, iperf_pub,
          launched, restarts, last_peers, sampled_slot, timer_due, skew,
          tick_num_slots, tick_calls, iperf_server, scraper, simulator>>

slotVars == <<tick_num_slots, tick_calls>>

serviceVars == <<iperf_server, scraper, simulator>>

\* Neither the iperf3 server node nor the link-state scraper nor the
\* simulator is examined.
NoServices ==
    /\ iperf_server = <<>>
    /\ scraper = <<>>
    /\ simulator = <<>>

\* The slot arithmetic is not being examined on its own.
NoTicks ==
    /\ tick_num_slots = 0
    /\ tick_calls = <<>>

\* ------------------------------------------------------------------------
\* Two runs of the schedule builder, statement by statement
\* ------------------------------------------------------------------------

Runs == {1, 2}

\* No monitor process exists while the builder is examined on its own.
NoNodes ==
    /\ clock = 0
    /\ deadline = 0
    /\ node_list = <<>>
    /\ orange_box_ips = {}
    /\ procs = {}
    /\ schedule = <<>>
    /\ num_slots = <<>>
    /\ reachable = <<>>
    /\ pc = <<>>
    /\ loc = <<>>
    /\ probe = <<>>
    /\ ping_pub = <<>>
    /\ iperf_pub = <<>>
    /\ launched = <<>>
    /\ restarts = <<>>
    /\ last_peers = <<>>
    /\ sampled_slot = <<>>
    /\ timer_due = <<>>
    /\ skew = <<>>

InitSched ==
    /\ nodes_in \in DistinctLists
    /\ orange_in \in SUBSET Addr
    /\ listed = [r \in Runs |-> <<>>]
    /\ run_pc = [r \in Runs |-> "start"]
    /\ run_edges = [r \in Runs |-> <<>>]
    /\ run_used = [r \in Runs |-> {}]
    /\ run_schedule = [r \in Runs |-> <<>>]
    /\ NoNodes
    /\ NoTicks
    /\ NoServices

\* A run has left the function, by return or by raise.
RunOver(r) == run_pc[r] \in {"returned", "raised"}

\* edges = list(permutations(nodes, 2)); schedule = []; used = set(); the filter.
\* The second run is started once the first is over.
BuildStart(r) ==
    /\ run_pc[r] = "start"
    /\ r = 1 \/ RunOver(1)
    /\ run_edges' = [run_edges EXCEPT ![r] = CandidateEdges(nodes_in, orange_in)]
    /\ run_used' = [run_used EXCEPT ![r] = {}]
    /\ run_schedule' = [run_schedule EXCEPT ![r] = <<>>]
    /\ run_pc' = [run_pc EXCEPT ![r] = "loop"]
    /\ UNCHANGED <<nodes_in, orange_in, listed>>
    /\ UNCHANGED nodeVars
    /\ UNCHANGED slotVars
    /\ UNCHANGED serviceVars

\* One iteration of the while loop: a slot is scanned and appended.
BuildSlot(r) ==
    /\ run_pc[r] = "loop"
    /\ MoreSlots(run_edges[r], run_used[r])
    /\ \E order \in IterationOrders(run_edges[r]) :
          LET res == ScanSlot(order, run_used[r])
          IN  /\ run_used' = [run_used EXCEPT ![r] = res.used]
              /\ run_schedule' = [run_schedule EXCEPT ![r] = Append(@, res.slot)]
    /\ UNCHANGED <<nodes_in, orange_in, listed, run_pc, run_edges>>
    /\ UNCHANGED nodeVars
    /\ UNCHANGED slotVars
    /\ UNCHANGED serviceVars

\* The while loop ends; the verification step raises ValueError or the
\* schedule is returned.
BuildVerify(r) ==
    /\ run_pc[r] = "loop"
    /\ ~MoreSlots(run_edges[r], run_used[r])
    /\ run_pc' = [run_pc EXCEPT ![r] =
                     IF VerificationRaises(run_schedule[r]) THEN "raised" ELSE "returned"]
    /\ UNCHANGED <<nodes_in, orange_in, listed, run_edges, run_used, run_schedule>>
    /\ UNCHANGED nodeVars
    /\ UNCHANGED slotVars
    /\ UNCHANGED serviceVars

NextSched ==
    \/ \E r \in Runs : BuildStart(r)
    \/ \E r \in Runs : BuildSlot(r)
    \/ \E r \in Runs : BuildVerify(r)

SpecSched == InitSched /\ [][NextSched]_vars

\* The longest node list given to the builder when addresses may repeat.
MaxListLen == 3

\* The number of passes of the while loop after which a run is no longer
\* followed.
MaxPasses == 8

\* All lists of addresses of length 0..MaxListLen, repeated addresses
\* included: sorted(list(mapping.values()) + orange_box_ips) keeps an address
\* that two hostnames share, or that is a host's and an orange box's, twice.
AnyLists == UNION {[1..n -> Addr] : n \in 0..MaxListLen}

InitDup ==
    /\ nodes_in \in AnyLists
    /\ orange_in \in SUBSET Addr
    /\ listed = [r \in Runs |-> <<>>]
    /\ run_pc = [r \in Runs |-> "start"]
    /\ run_edges = [r \in Runs |-> <<>>]
    /\ run_used = [r \in Runs |-> {}]
    /\ run_schedule = [r \in Runs |-> <<>>]
    /\ NoNodes
    /\ NoTicks
    /\ NoServices

\* One iteration of the while loop of a run that is still followed.
BuildSlotFollowed(r) ==
    /\ Len(run_schedule[r]) < MaxPasses
    /\ BuildSlot(r)

NextDup ==
    \/ \E r \in Runs : BuildStart(r)
    \/ \E r \in Runs : BuildSlotFollowed(r)
    \/ \E r \in Runs : BuildVerify(r)

SpecDup == InitDup /\ [][NextDup]_vars

\* ------------------------------------------------------------------------
\* The builder of the simulator, schedule_tester.edge_coloring_schedule,
\* beside that of the node
\* ------------------------------------------------------------------------

\* A variant of the simulator's filter that tests the server.
tester_is_candidate_on_server(edge, orange) == edge[2] \notin orange

\* "edge[0] not in orange_box_ips" of the simulator's list comprehension.
tester_is_candidate(edge, orange) == edge[1] \notin orange

\* edges of the simulator's builder after the list comprehension.
tester_edges(nodes, orange) ==
    SelectSeq(permutations2(nodes), LAMBDA edge : tester_is_candidate(edge, orange))

\* "for a, b in edges" of the simulator's builder from position i on; the
\* result holds slot, seen and used as the loop leaves them.
RECURSIVE tester_for(_, _, _)
tester_for(edges, i, acc) ==
    IF i > Len(edges)
    THEN acc
    ELSE IF edges[i] \in acc.used
         THEN tester_for(edges, i + 1, acc)
         ELSE IF edges[i][1] \notin acc.seen /\ edges[i][2] \notin acc.seen
              THEN tester_for(edges, i + 1,
                              [slot |-> Append(acc.slot, edges[i]),
                               seen |-> acc.seen \cup {edges[i][1], edges[i][2]},
                               used |-> acc.used \cup {edges[i]}])
              ELSE tester_for(edges, i + 1, acc)

\* The simulator's verification step raises ValueError: in some slot an
\* edge has an endpoint that an earlier edge of the slot has put into seen.
tester_verification_raises(sched) ==
    \E k \in 1..Len(sched) : \E j \in 1..Len(sched[k]) : \E i \in 1..(j - 1) :
        {sched[k][j][1], sched[k][j][2]} \cap {sched[k][i][1], sched[k][i][2]} # {}

\* The node list given to both builders: a list of distinct addresses, or a
\* list of at most MaxListLen addresses some of which may repeat.
InitTester ==
    /\ nodes_in \in DistinctLists \cup AnyLists
    /\ orange_in \in SUBSET Addr
    /\ listed = [r \in Runs |-> <<>>]
    /\ run_pc = [r \in Runs |-> "start"]
    /\ run_edges = [r \in Runs |-> <<>>]
    /\ run_used = [r \in Runs |-> {}]
    /\ run_schedule = [r \in Runs |-> <<>>]
    /\ NoNodes
    /\ NoTicks
    /\ NoServices

\* The first statements of the simulator's builder, in the run r; the run is
\* begun once the node's builder is over or no longer followed.
TesterStart(r) ==
    /\ run_pc[r] = "start"
    /\ RunOver(1) \/ Len(run_schedule[1]) = MaxPasses
    /\ run_edges' = [run_edges EXCEPT ![r] = tester_edges(nodes_in, orange_in)]
    /\ run_used' = [run_used EXCEPT ![r] = {}]
    /\ run_schedule' = [run_schedule EXCEPT ![r] = <<>>]
    /\ run_pc' = [run_pc EXCEPT ![r] = "loop"]
    /\ UNCHANGED <<nodes_in, orange_in, listed>>
    /\ UNCHANGED nodeVars
    /\ UNCHANGED slotVars
    /\ UNCHANGED serviceVars

\* One iteration of the simulator's while loop.
TesterSlot(r) ==
    /\ run_pc[r] = "loop"
    /\ Len(run_schedule[r]) < MaxPasses
    /\ Cardinality(run_used[r]) < Len(run_edges[r])
    /\ LET res == tester_for(run_edges[r], 1, [slot |-> <<>>, seen |-> {}, used |-> run_used[r]])
       IN  /\ run_used' = [run_used EXCEPT ![r] = res.used]
           /\ run_schedule' = [run_schedule EXCEPT ![r] = Append(@, res.slot)]
    /\ UNCHANGED <<nodes_in, orange_in, listed, run_pc, run_edges>>
    /\ UNCHANGED nodeVars
    /\ UNCHANGED slotVars
    /\ UNCHANGED serviceVars

\* The simulator's while loop ends; its verification step raises or the
\* schedule is returned.
TesterVerify(r) ==
    /\ run_pc[r] = "loop"
    /\ ~(Cardinality(run_used[r]) < Len(run_edges[r]))
    /\ run_pc' = [run_pc EXCEPT ![r] =
                     IF tester_verification_raises(run_schedule[r]) THEN "raised" ELSE "returned"]
    /\ UNCHANGED <<nodes_in, orange_in, listed, run_edges, run_used, run_schedule>>
    /\ UNCHANGED nodeVars
    /\ UNCHANGED slotVars
    /\ UNCHANGED serviceVars

\* The run 1 is the node's builder, the run 2 the simulator's.
NextTester ==
    \/ BuildStart(1)
    \/ BuildSlotFollowed(1)
    \/ BuildVerify(1)
    \/ TesterStart(2)
    \/ TesterSlot(2)
    \/ TesterVerify(2)

SpecTester == InitTester /\ [][NextTester]_vars

\* The builder is sequential code that is not held up: a run that can take
\* a step takes one.
SpecSchedFair == SpecSched /\ WF_vars(NextSched)

\* ------------------------------------------------------------------------
\* The constructors of two monitors with differently listed configurations
\* ------------------------------------------------------------------------

\* The lists that hold every element of S exactly once.
Listings(S) == {l \in DistinctListsOf(S) : Range(l) = S}

\* list(self.hostname_to_ip_mapping.values()) + self.orange_box_ips of two
\* configurations over the same addresses with the same orange boxes: each
\* lists the hosts' addresses in an order of its own and then the orange
\* boxes in an order of its own.
InitConfig ==
    /\ \E all \in SUBSET Addr :
          /\ orange_in \in SUBSET all
          /\ listed \in [Runs -> {values \o orange : values \in Listings(all \ orange_in),
                                                     orange \in Listings(orange_in)}]
    /\ nodes_in = <<>>
    /\ run_pc = [r \in Runs |-> "start"]
    /\ run_edges = [r \in Runs |-> <<>>]
    /\ run_used = [r \in Runs |-> {}]
    /\ run_schedule = [r \in Runs |-> <<>>]
    /\ NoNodes
    /\ NoTicks
    /\ NoServices

\* __init__ of the monitor with the r-th configuration, up to the first
\* statements of the builder: self.node_list = sorted(...), and
\* edge_coloring_schedule(self.node_list, self.orange_box_ips) is entered.
Construct(r) ==
    /\ run_pc[r] = "start"
    /\ r = 1 \/ RunOver(1)
    /\ nodes_in' = sorted(listed[r])
    /\ run_edges' = [run_edges EXCEPT ![r] = CandidateEdges(nodes_in', orange_in)]
    /\ run_used' = [run_used EXCEPT ![r] = {}]
    /\ run_schedule' = [run_schedule EXCEPT ![r] = <<>>]
    /\ run_pc' = [run_pc EXCEPT ![r] = "loop"]
    /\ UNCHANGED <<orange_in, listed>>
    /\ UNCHANGED nodeVars
    /\ UNCHANGED slotVars
    /\ UNCHANGED serviceVars

NextConfig ==
    \/ \E r \in Runs : Construct(r)
    \/ \E r \in Runs : BuildSlot(r)
    \/ \E r \in Runs : BuildVerify(r)

SpecConfig == InitConfig /\ [][NextConfig]_vars

\* ------------------------------------------------------------------------
\* The EdgePayloadMonitor processes
\* ------------------------------------------------------------------------

\* The builder is not being run on its own.
NoRuns ==
    /\ nodes_in = <<>>
    /\ orange_in = {}
    /\ listed = [r \in Runs |-> <<>>]
    /\ run_pc = [r \in Runs |-> "returned"]
    /\ run_edges = [r \in Runs |-> <<>>]
    /\ run_used = [r \in Runs |-> {}]
    /\ run_schedule = [r \in Runs |-> <<>>]

\* The locals of edge_slot_runner while no call is running.
NoCall ==
    [now |-> 0 - 1, slot_idx |-> 0 - 1, slot_start |-> 0 - 1,
     end_start_window |-> 0 - 1, slot_end |-> 0 - 1,
     my_test_partner |-> None, wake |-> 0 - 1]

\* No peer_list message has been taken in by the process.
NoPeerMsg == [seen |-> FALSE, peers |-> <<>>]

\* A variant that takes every address as reachable from the start.
ReachableAtStartAll == AllIps

\* self.reachable = set() of __init__.
ReachableAtStart == {}

\* No subprocess.
NoProbe ==
    [kind |-> "none", ip |-> None, started |-> 0 - 1, timeout |-> 0,
     status |-> "none"]

\* The slots of sched from the k-th on, followed by those before it.
Rotate(sched, k) ==
    [i \in 1..Len(sched) |-> sched[((i - 1 + k) % Len(sched)) + 1]]

\* The schedules of the configurations the monitors start from, each paired
\* with its arguments and built once.
BuiltSchedules ==
    {<<c, edge_coloring_schedule(c[1], c[2])>> :
        c \in {<<sorted(SubSeq(HostIps, 1, hosts) \o o), Range(o)>> :
                  hosts \in HostCounts, o \in OrangeConfigs}}

\* A variant that numbers the slots from the one in which the process was
\* started.
ScheduleFromStart(nodes, orange, started) ==
    Rotate(edge_coloring_schedule(nodes, orange), started \div SLOT_LENGTH)

\* self.schedule of a process started at the time started:
\* edge_coloring_schedule(self.node_list, self.orange_box_ips), looked up
\* among the schedules already built where it is one of them.
ScheduleOfProcess(nodes, orange, started) ==
    IF \E b \in BuiltSchedules : b[1] = <<nodes, orange>>
    THEN (CHOOSE b \in BuiltSchedules : b[1] = <<nodes, orange>>)[2]
    ELSE edge_coloring_schedule(nodes, orange)

\* os.uname()[1] of the hosts: host h has the hostname h, and a mapping of
\* hosts entries has the hostnames 1..hosts as keys.
Hostnames == 1..NumHosts

\* self.hostname_to_ip_mapping.get(self.hostname)
MyIp(hostname, hosts) == IF hostname \in 1..hosts THEN HostIps[hostname] ELSE None

\* A variant of the constructor that goes on without an address.
StartupRaisesNever(my_ip) == FALSE

\* "if self.my_ip is None: raise RuntimeError(...)"
StartupRaises(my_ip) == my_ip = None

\* The period of the timer of edge_slot_runner, 0.25 s.
TIMER_PERIOD == 5

\* The value of timer_due of a timer whose period is left open: the timer is
\* ready whenever the executor is free.
Untimed == 0 - 1

\* time.time() on the host of n.
LocalTime(n) == clock + skew[n]

\* The timer of n is ready to be called.
TimerReady(n) == timer_due[n] = Untimed \/ clock >= timer_due[n]

\* The time from which a timer called at the time t is ready again: one
\* period after the time it was due, or, when that has gone by, the first
\* later time in the same phase.
TimerNext(due, t) ==
    IF due = Untimed
    THEN Untimed
    ELSE IF due + TIMER_PERIOD >= t
         THEN due + TIMER_PERIOD
         ELSE due + TIMER_PERIOD
                  + (1 + ((t - due - TIMER_PERIOD) \div TIMER_PERIOD)) * TIMER_PERIOD

\* The state after __init__ of the monitors on the hosts in hostnames,
\* started while the wall clock is at the beginning of a slot.  A monitor
\* whose constructor raises (for want of an address, before the schedule is
\* built, or in the verification step of the builder) is over before it has
\* a subscription and a timer.
StartOfNodes(hostnames) ==
    /\ NoRuns
    /\ NoTicks
    /\ NoServices
    /\ clock \in {k * SLOT_LENGTH : k \in 0..MaxStartSlot}
    /\ \E hosts \in HostCounts, orange \in OrangeConfigs :
          /\ orange_box_ips = orange
          /\ node_list = sorted(SubSeq(HostIps, 1, hosts) \o orange)
          /\ procs = {MyIp(h, hosts) : h \in hostnames}
    /\ LET built  == ScheduleOfProcess(node_list, Range(orange_box_ips), clock)
           raises == [n \in procs |-> StartupRaises(n) \/ VerificationRaises(built)]
       IN  /\ schedule = [n \in procs |-> IF raises[n] THEN <<>> ELSE built]
           /\ pc = [n \in procs |-> IF raises[n] THEN "crashed" ELSE "idle"]
    /\ num_slots = [n \in procs |-> Len(schedule[n])]
    /\ reachable = [n \in procs |-> ReachableAtStart]
    /\ loc = [n \in procs |-> NoCall]
    /\ probe = [n \in procs |-> NoProbe]
    /\ ping_pub = [n \in procs |-> <<>>]
    /\ iperf_pub = [n \in procs |-> <<>>]
    /\ launched = [n \in procs |-> <<>>]
    /\ restarts = [n \in procs |-> 0]
    /\ last_peers = [n \in procs |-> NoPeerMsg]
    /\ sampled_slot = [n \in procs |-> 0 - 1]

\* The clocks of the monitors agree with the wall clock, and the timer is
\* ready whenever the executor is free.
PlainClocks ==
    /\ timer_due = [n \in procs |-> Untimed]
    /\ skew = [n \in procs |-> 0]

\* The monitors are observed for one slot and the beginning of the next.
InitNodes(hostnames) ==
    /\ StartOfNodes(hostnames)
    /\ deadline = clock + SLOT_LENGTH + Overrun
    /\ PlainClocks

\* One monitor, on any of the hosts.
Init == \E h \in Hostnames : InitNodes({h})

\* Monitors on two of the hosts.
InitNet ==
    \E h1, h2 \in Hostnames : h1 < h2 /\ InitNodes({h1, h2})

\* The record of a subprocess started now.
Started(kind, ip, timeout) ==
    [kind |-> kind, ip |-> ip, started |-> clock, timeout |-> timeout,
     status |-> "running"]

\* The record of a subprocess that is over: its kind, its target and the way
\* it ended.
Ended(p, status) == [p EXCEPT !.status = status, !.started = 0 - 1, !.timeout = 0]

\* The entry of launched for a subprocess started now.
Launch(kind, ip) == [kind |-> kind, ip |-> ip, slot |-> clock \div SLOT_LENGTH]

\* The locals of a call of n that has reached _wait_for_next_slot at the
\* time clock: of the locals only slot_end is read from there on, the others
\* are dropped; wake is the time at which time.sleep returns.
Sleeping(l, n) ==
    [NoCall EXCEPT !.slot_end = l.slot_end,
                   !.wake = clock + WaitForNextSlot(l.slot_end, LocalTime(n))]

\* The timer calls edge_slot_runner while the executor is free.  The call
\* runs to its return (empty schedule), to the sleep of
\* _wait_for_next_slot, or to the check_output call of run_ping.
edge_slot_runner(n) ==
    /\ pc[n] = "idle"
    /\ TimerReady(n)
    /\ timer_due' = [timer_due EXCEPT ![n] = TimerNext(@, clock)]
    /\ IF schedule[n] = <<>>
       THEN UNCHANGED <<pc, loc, probe, launched, sampled_slot>>
       ELSE LET now              == LocalTime(n)
                slot_idx         == SlotIdx(now, num_slots[n])
                slotted_comms    == schedule[n][slot_idx + 1]
                slot_start       == SlotStart(now)
                end_start_window == EndStartWindow(slot_start)
                slot_end         == SlotEnd(slot_start)
                in_window        == NowIsInStartWindow(now, slot_start, end_start_window)
                my_test_partner  == IF in_window
                                    THEN MyTestPartner(slotted_comms, 1, n)
                                    ELSE None
                l == [now |-> now, slot_idx |-> slot_idx, slot_start |-> slot_start,
                      end_start_window |-> end_start_window, slot_end |-> slot_end,
                      my_test_partner |-> my_test_partner, wake |-> 0 - 1]
            IN  /\ sampled_slot' = [sampled_slot EXCEPT ![n] = now \div SLOT_LENGTH]
                /\ IF \/ ~in_window
                      \/ my_test_partner = None
                      \/ ~PartnerIsReachable(my_test_partner, reachable[n])
                   THEN /\ pc' = [pc EXCEPT ![n] = "sleep"]
                        /\ loc' = [loc EXCEPT ![n] = Sleeping(l, n)]
                        /\ UNCHANGED <<probe, launched>>
                   ELSE /\ pc' = [pc EXCEPT ![n] = "ping"]
                        /\ loc' = [loc EXCEPT ![n] = l]
                        /\ probe' = [probe EXCEPT ![n] = Started("ping", my_test_partner, PingTimeout)]
                        /\ launched' = [launched EXCEPT ![n] = Append(@, Launch("ping", my_test_partner))]
    /\ UNCHANGED <<clock, deadline, node_list, orange_box_ips, procs, schedule,
                   num_slots, reachable, ping_pub, iperf_pub>>
    /\ UNCHANGED <<restarts, last_peers, skew>>
    /\ UNCHANGED buildVars
    /\ UNCHANGED slotVars
    /\ UNCHANGED serviceVars

\* The ways the subprocess of n can end at the time clock: by itself up to the
\* timeout, killed by check_output at the timeout.
EndsNow(n) ==
    {st \in ExitStatus :
        IF st = "timeout"
        THEN clock - probe[n].started = probe[n].timeout
        ELSE clock - probe[n].started <= probe[n].timeout}

\* A variant that runs the bandwidth probe whatever the ping returned.
RunsIperfAlways(ping_worked) == TRUE

\* "if ping_worked:" of edge_slot_runner, on the value run_ping returned.
RunsIperf(ping_worked) == ping_worked

\* check_output of run_ping ends: the result is published, and the call goes
\* on to run_iperf when the ping worked, to _wait_for_next_slot otherwise.
run_ping(n, status) ==
    /\ pc[n] = "ping"
    /\ status \in EndsNow(n)
    /\    LET ip  == probe[n].ip
              ok  == status = "exit0"
              out == IF status = "timeout" THEN "Ping timed out" ELSE "output"
          IN  /\ ping_pub' = [ping_pub EXCEPT ![n] = Append(@, [ip |-> ip, ok |-> ok, raw |-> out])]
              /\ IF RunsIperf(ok)
                 THEN /\ pc' = [pc EXCEPT ![n] = "iperf"]
                      /\ probe' = [probe EXCEPT ![n] = Started("iperf", ip, IperfTimeout)]
                      /\ launched' = [launched EXCEPT ![n] = Append(@, Launch("iperf", ip))]
                      /\ UNCHANGED loc
                 ELSE /\ pc' = [pc EXCEPT ![n] = "sleep"]
                      /\ probe' = [probe EXCEPT ![n] = Ended(@, status)]
                      /\ loc' = [loc EXCEPT ![n] = Sleeping(@, n)]
                      /\ UNCHANGED launched
    /\ UNCHANGED <<clock, deadline, node_list, orange_box_ips, procs, schedule,
                   num_slots, reachable, iperf_pub>>
    /\ UNCHANGED <<restarts, last_peers, sampled_slot, timer_due, skew>>
    /\ UNCHANGED buildVars
    /\ UNCHANGED slotVars
    /\ UNCHANGED serviceVars

\* check_output of run_iperf ends: the output is parsed and the result is
\* published, unless the parsing raises; then _wait_for_next_slot.
run_iperf(n, status, shape) ==
    /\ pc[n] = "iperf"
    /\ status \in EndsNow(n)
    /\    LET ip  == probe[n].ip
              ok  == status = "exit0"
              out == IperfOut(status, shape)
              raw == IF IperfOutNotJson(out) THEN "invalid_json_error" ELSE out
          IN  /\ shape = "none" => status = "nonzero"
              /\ status = "timeout" => shape = "not_json"
              /\ probe' = [probe EXCEPT ![n] = Ended(@, status)]
              /\ IF ~IperfOutNotJson(out) /\ IperfParseRaises(out)
                 THEN /\ pc' = [pc EXCEPT ![n] = "crashed"]
                      /\ UNCHANGED <<iperf_pub, loc>>
                 ELSE /\ iperf_pub' = [iperf_pub EXCEPT ![n] =
                            Append(@, [role |-> "client", ip |-> ip, ok |-> ok, raw |-> raw])]
                      /\ pc' = [pc EXCEPT ![n] = "sleep"]
                      /\ loc' = [loc EXCEPT ![n] = Sleeping(@, n)]
    /\ UNCHANGED <<clock, deadline, node_list, orange_box_ips, procs, schedule,
                   num_slots, reachable, ping_pub, launched>>
    /\ UNCHANGED <<restarts, last_peers, sampled_slot, timer_due, skew>>
    /\ UNCHANGED buildVars
    /\ UNCHANGED slotVars
    /\ UNCHANGED serviceVars

\* time.sleep returns and with it edge_slot_runner.
wait_for_next_slot(n) ==
    /\ pc[n] = "sleep"
    /\ clock >= loc[n].wake
    /\ pc' = [pc EXCEPT ![n] = "idle"]
    /\ loc' = [loc EXCEPT ![n] = NoCall]
    /\ probe' = [probe EXCEPT ![n] = NoProbe]
    /\ UNCHANGED <<clock, deadline, node_list, orange_box_ips, procs, schedule,
                   num_slots, reachable, ping_pub, iperf_pub, launched>>
    /\ UNCHANGED <<restarts, last_peers, sampled_slot, timer_due, skew>>
    /\ UNCHANGED buildVars
    /\ UNCHANGED slotVars
    /\ UNCHANGED serviceVars

\* A variant that adds the peers of the message to the set.
NewReachableMerged(old, ip_peers) == old \cup Range(ip_peers)

\* self.reachable = set(ip_peers)
NewReachable(old, ip_peers) == Range(ip_peers)

\* A variant of the callback that builds the schedule anew from the peers of
\* the message it takes in.
peer_list_cbRescheduling(n, msg) ==
    /\ pc[n] = "idle"
    /\ IF msg.kind = "bad_json"
       THEN UNCHANGED <<reachable, pc, last_peers, schedule, num_slots>>
       ELSE IF msg.kind = "not_object"
            THEN /\ pc' = [pc EXCEPT ![n] = "crashed"]
                 /\ UNCHANGED <<reachable, last_peers, schedule, num_slots>>
            ELSE LET ip_peers == IF msg.kind = "no_peers_key" THEN <<>> ELSE msg.peers
                     rebuilt  == edge_coloring_schedule(ip_peers, Range(orange_box_ips))
                 IN  /\ reachable' = [reachable EXCEPT ![n] = Range(ip_peers)]
                     /\ last_peers' = [last_peers EXCEPT ![n] =
                                          [seen |-> TRUE, peers |-> ip_peers]]
                     /\ schedule' = [schedule EXCEPT ![n] = rebuilt]
                     /\ num_slots' = [num_slots EXCEPT ![n] = Len(rebuilt)]
                     /\ UNCHANGED pc
    /\ UNCHANGED <<clock, deadline, node_list, orange_box_ips, procs,
                   loc, probe, ping_pub, iperf_pub, launched>>
    /\ UNCHANGED <<restarts, sampled_slot, timer_due, skew>>
    /\ UNCHANGED buildVars
    /\ UNCHANGED slotVars
    /\ UNCHANGED serviceVars

\* The executor runs peer_list_cb on a message while it is free.  A message
\* that is an object without "peers" carries the empty list
\* (data.get("peers", [])).
peer_list_cb(n, msg) ==
    /\ pc[n] = "idle"
    /\ IF msg.kind = "bad_json"
       THEN UNCHANGED <<reachable, pc, last_peers>>
       ELSE IF msg.kind = "not_object"
            THEN /\ pc' = [pc EXCEPT ![n] = "crashed"]
                 /\ UNCHANGED <<reachable, last_peers>>
            ELSE LET ip_peers == IF msg.kind = "no_peers_key" THEN <<>> ELSE msg.peers
                 IN  /\ reachable' = [reachable EXCEPT ![n] = NewReachable(@, ip_peers)]
                     /\ last_peers' = [last_peers EXCEPT ![n] =
                                          [seen |-> TRUE, peers |-> ip_peers]]
                     /\ UNCHANGED pc
    /\ UNCHANGED <<clock, deadline, node_list, orange_box_ips, procs, schedule,
                   num_slots, loc, probe, ping_pub, iperf_pub, launched>>
    /\ UNCHANGED <<restarts, sampled_slot, timer_due, skew>>
    /\ UNCHANGED buildVars
    /\ UNCHANGED slotVars
    /\ UNCHANGED serviceVars

\* A variant in which the reachable sets expire at the end of every slot.
AdvanceExpiring ==
    /\ clock < deadline
    /\ \A n \in procs :
          /\ pc[n] \in {"ping", "iperf"} => clock - probe[n].started < probe[n].timeout
          /\ pc[n] = "sleep" => clock < loc[n].wake
    /\ clock' = clock + 1
    /\ reachable' = [n \in procs |-> IF clock' % SLOT_LENGTH = 0 THEN {} ELSE reachable[n]]
    /\ UNCHANGED <<deadline, node_list, orange_box_ips, procs, schedule, num_slots,
                   pc, loc, probe, ping_pub, iperf_pub, launched>>
    /\ UNCHANGED <<restarts, last_peers, sampled_slot, timer_due, skew>>
    /\ UNCHANGED buildVars
    /\ UNCHANGED slotVars
    /\ UNCHANGED serviceVars

\* Time passes, but not beyond the timeout of a running subprocess nor
\* beyond the end of a sleep.
Advance ==
    /\ clock < deadline
    /\ \A n \in procs :
          /\ pc[n] \in {"ping", "iperf"} => clock - probe[n].started < probe[n].timeout
          /\ pc[n] = "sleep" => clock < loc[n].wake
    /\ clock' = clock + 1
    /\ UNCHANGED <<deadline, node_list, orange_box_ips, procs, schedule, num_slots,
                   reachable, pc, loc, probe, ping_pub, iperf_pub, launched>>
    /\ UNCHANGED <<restarts, last_peers, sampled_slot, timer_due, skew>>
    /\ UNCHANGED buildVars
    /\ UNCHANGED slotVars
    /\ UNCHANGED serviceVars

\* The process of n is ended, at any point of its run, and started anew:
\* the state of n is that after __init__, at the time clock, and the records
\* of publications and subprocesses are those of the new process.
restart(n) ==
    /\ restarts[n] < MaxRestarts
    /\ restarts' = [restarts EXCEPT ![n] = @ + 1]
    /\ LET built == ScheduleOfProcess(node_list, Range(orange_box_ips), clock)
       IN  IF StartupRaises(n) \/ VerificationRaises(built)
           THEN /\ schedule' = [schedule EXCEPT ![n] = <<>>]
                /\ num_slots' = [num_slots EXCEPT ![n] = 0]
                /\ pc' = [pc EXCEPT ![n] = "crashed"]
           ELSE /\ schedule' = [schedule EXCEPT ![n] = built]
                /\ num_slots' = [num_slots EXCEPT ![n] = Len(built)]
                /\ pc' = [pc EXCEPT ![n] = "idle"]
    /\ reachable' = [reachable EXCEPT ![n] = ReachableAtStart]
    /\ last_peers' = [last_peers EXCEPT ![n] = NoPeerMsg]
    /\ loc' = [loc EXCEPT ![n] = NoCall]
    /\ probe' = [probe EXCEPT ![n] = NoProbe]
    /\ ping_pub' = [ping_pub EXCEPT ![n] = <<>>]
    /\ iperf_pub' = [iperf_pub EXCEPT ![n] = <<>>]
    /\ launched' = [launched EXCEPT ![n] = <<>>]
    /\ sampled_slot' = [sampled_slot EXCEPT ![n] = 0 - 1]
    /\ timer_due' = [timer_due EXCEPT ![n] =
                         IF @ = Untimed THEN Untimed ELSE clock + TIMER_PERIOD]
    /\ UNCHANGED <<clock, deadline, node_list, orange_box_ips, procs, skew>>
    /\ UNCHANGED buildVars
    /\ UNCHANGED slotVars
    /\ UNCHANGED serviceVars

Next ==
    \/ \E n \in procs : edge_slot_runner(n)
    \/ \E n \in procs, status \in ExitStatus : run_ping(n, status)
    \/ \E n \in procs, status \in ExitStatus, shape \in OutputShapes :
          run_iperf(n, status, shape)
    \/ \E n \in procs : wait_for_next_slot(n)
    \/ \E n \in procs, msg \in PeerMsgs : peer_list_cb(n, msg)
    \/ Advance

Spec == Init /\ [][Next]_vars

\* Several monitors on one wall clock.  The monitors exchange nothing, and
\* when a monitor starts a subprocess and how long the subprocess runs depend
\* on the environment only through the membership of the partner in the
\* reachable set and through the way the subprocess ends; so the peer lists
\* are the empty and the full one, and iperf3 leaves a well-formed report.
NextNet ==
    \/ \E n \in procs : edge_slot_runner(n)
    \/ \E n \in procs, status \in ExitStatus : run_ping(n, status)
    \/ \E n \in procs, status \in ExitStatus :
          run_iperf(n, status, IF status = "timeout" THEN "not_json" ELSE "throughput")
    \/ \E n \in procs : wait_for_next_slot(n)
    \/ \E n \in procs, msg \in NetPeerMsgs : peer_list_cb(n, msg)
    \/ Advance

SpecNet == InitNet /\ [][NextNet]_vars

\* The builder on its own or one monitor: the behaviours of SpecSched and
\* those of Spec.
InitAny == InitSched \/ Init

NextAny == NextSched \/ Next

SpecAny == InitAny /\ [][NextAny]_vars

\* One monitor whose process may be ended and started anew; as in NextNet
\* the peer lists are the empty and the full one and iperf3 leaves a
\* well-formed report.
NextRestart ==
    \/ NextNet
    \/ \E n \in procs : restart(n)

SpecRestart == Init /\ [][NextRestart]_vars

\* ------------------------------------------------------------------------
\* One monitor over a whole cycle of its schedule
\* ------------------------------------------------------------------------

\* The peer list that names every address.
FullPeerMsg == [kind |-> "peers", peers |-> sorted(HostIps \o <<OrangeIp>>)]

\* One monitor, observed for num_slots slots from the beginning of a slot.
InitCycle ==
    /\ \E h \in Hostnames : StartOfNodes({h})
    /\ \E n \in procs : deadline = clock + num_slots[n] * SLOT_LENGTH
    /\ PlainClocks

\* The timer calls edge_slot_runner inside the execution window of the slot,
\* once a peer list has arrived.
CycleTick(n) ==
    /\ last_peers[n].seen
    /\ SlotStart(clock) <= clock
    /\ clock < EndStartWindow(SlotStart(clock))
    /\ edge_slot_runner(n)

\* Time passes, but a monitor with a schedule does not let the execution
\* window go by without a call.
AdvanceCycle ==
    /\ \A n \in procs :
          (pc[n] = "idle" /\ schedule[n] # <<>>) =>
              clock + 1 < EndStartWindow(SlotStart(clock))
    /\ Advance

\* The ways the probes of the cycle end: with success, or killed at the
\* timeout.
CycleExits == {"exit0", "timeout"}

\* The monitor ticks in the window of every slot and every peer stays in the
\* peer list; the process stays alive, so iperf3 leaves a report the parsing
\* of run_iperf gets through.
NextCycle ==
    \/ \E n \in procs : CycleTick(n)
    \/ \E n \in procs, status \in CycleExits : run_ping(n, status)
    \/ \E n \in procs, status \in CycleExits :
          run_iperf(n, status, IF status = "timeout" THEN "not_json" ELSE "throughput")
    \/ \E n \in procs : wait_for_next_slot(n)
    \/ \E n \in procs : peer_list_cb(n, FullPeerMsg)
    \/ AdvanceCycle

\* The executor and the clock do not stop while a step is possible.
SpecCycle == InitCycle /\ [][NextCycle]_vars /\ WF_vars(NextCycle)

\* ------------------------------------------------------------------------
\* One monitor and its periodic timer
\* ------------------------------------------------------------------------

\* One monitor whose timer is first due at any instant of the slot at whose
\* beginning the observation starts (the timer is first due one period
\* after create_timer), observed for two slots and the beginning of a third.
InitTimer ==
    /\ \E h \in Hostnames : StartOfNodes({h})
    /\ deadline = clock + 2 * SLOT_LENGTH + Overrun
    /\ timer_due \in [procs -> clock..(clock + SLOT_LENGTH - 1)]
    /\ skew = [n \in procs |-> 0]

\* Time passes, but not while a timer is due and its executor is free: the
\* timer is called as soon as it is due, or as soon as the callback that
\* kept the executor busy has returned.
AdvanceTimer ==
    /\ \A n \in procs : ~(pc[n] = "idle" /\ clock >= timer_due[n])
    /\ Advance

NextTimer ==
    \/ \E n \in procs : edge_slot_runner(n)
    \/ \E n \in procs, status \in ExitStatus : run_ping(n, status)
    \/ \E n \in procs, status \in ExitStatus :
          run_iperf(n, status, IF status = "timeout" THEN "not_json" ELSE "throughput")
    \/ \E n \in procs : wait_for_next_slot(n)
    \/ \E n \in procs, msg \in NetPeerMsgs : peer_list_cb(n, msg)
    \/ AdvanceTimer

SpecTimer == InitTimer /\ [][NextTimer]_vars

\* ------------------------------------------------------------------------
\* Two monitors whose clocks differ
\* ------------------------------------------------------------------------

\* Monitors on two of the hosts.  time.time() of one host is the wall clock
\* and that of the other is ahead of it by less than the width of the
\* execution window.
InitSkew ==
    /\ \E h1, h2 \in Hostnames : h1 < h2 /\ StartOfNodes({h1, h2})
    /\ deadline = clock + SLOT_LENGTH + Overrun
    /\ timer_due = [n \in procs |-> Untimed]
    /\ skew \in [procs -> 0..(GENERAL_TIMING_BUFFER - 1)]
    /\ \E n, m \in procs : skew[n] = 0 /\ skew[m] > 0

SpecSkew == InitSkew /\ [][NextNet]_vars

\* ------------------------------------------------------------------------
\* IperfServer: the thread of _server_loop
\* ------------------------------------------------------------------------

\* The number of iperf3 instances after which the thread is no longer
\* followed.
MaxInstances == 3

\* What subprocess.Popen does: it starts iperf3, or raises FileNotFoundError
\* (no iperf3 executable), or raises another exception (PermissionError, ...).
PopenResults == {"started", "FileNotFoundError", "OSError"}

\* How an instance ends and what becomes of its output: a non-zero exit
\* code; no output; a report naming the client; a report without
\* remote_host; output that is not JSON; a report whose "connected" list is
\* empty (IndexError); a report on which the lookups raise another exception
\* (AttributeError, KeyError, TypeError), which _process_iperf_output lets
\* through.
InstanceExits ==
    {"nonzero", "no_output", "served", "no_remote_host", "not_json",
     "index_error", "lookup_raises"}

\* The state after __init__ of IperfServer: the thread is at the head of
\* the while loop, no instance is running, the context is ok.
InitServer ==
    /\ iperf_server = [pc |-> "head", ok |-> TRUE, alive |-> 0, started |-> 0,
                       published |-> 0, event |-> "init"]
    /\ scraper = <<>>
    /\ simulator = <<>>
    /\ NoRuns
    /\ NoNodes
    /\ NoTicks

\* A variant of the loop that gives up after an instance has ended with a
\* non-zero exit code.
AfterInstanceGivingUp(exit) == IF exit = "nonzero" THEN "ended" ELSE "head"

\* Where the thread is after communicate() has returned and the output has
\* been dealt with: "continue", the return of _process_iperf_output and the
\* clause "except Exception" all lead back to the head of the loop.
AfterInstance(exit) == "head"

\* "while rclpy.ok():" with the context shut down: the loop is left.
server_loop_leaves ==
    /\ iperf_server.pc = "head"
    /\ ~iperf_server.ok
    /\ iperf_server' = [iperf_server EXCEPT !.pc = "left", !.event = "left"]
    /\ UNCHANGED <<scraper, simulator>>
    /\ UNCHANGED <<buildVars, nodeVars, slotVars>>

\* "while rclpy.ok():" with the context ok, and subprocess.Popen.
server_loop_popen(result) ==
    /\ iperf_server.pc = "head"
    /\ iperf_server.ok
    /\ iperf_server.started < MaxInstances
    /\ iperf_server' =
          IF result = "started"
          THEN [iperf_server EXCEPT !.pc = "communicate", !.alive = @ + 1,
                                    !.started = @ + 1, !.event = "started"]
          ELSE IF result = "FileNotFoundError"
               THEN [iperf_server EXCEPT !.pc = "ended", !.event = result]
               ELSE [iperf_server EXCEPT !.event = result]
    /\ UNCHANGED <<scraper, simulator>>
    /\ UNCHANGED <<buildVars, nodeVars, slotVars>>

\* The instance exits, proc.communicate() returns and the rest of the loop
\* body runs.
server_loop_instance_exits(exit) ==
    /\ iperf_server.pc = "communicate"
    /\ iperf_server' =
          [iperf_server EXCEPT !.pc = AfterInstance(exit),
                               !.alive = @ - 1,
                               !.published = IF exit = "served" THEN @ + 1 ELSE @,
                               !.event = exit]
    /\ UNCHANGED <<scraper, simulator>>
    /\ UNCHANGED <<buildVars, nodeVars, slotVars>>

\* The ROS context is shut down.
context_shutdown ==
    /\ iperf_server.ok
    /\ iperf_server' = [iperf_server EXCEPT !.ok = FALSE]
    /\ UNCHANGED <<scraper, simulator>>
    /\ UNCHANGED <<buildVars, nodeVars, slotVars>>

NextServer ==
    \/ server_loop_leaves
    \/ \E result \in PopenResults : server_loop_popen(result)
    \/ \E exit \in InstanceExits : server_loop_instance_exits(exit)
    \/ context_shutdown

SpecServer == InitServer /\ [][NextServer]_vars

\* ------------------------------------------------------------------------
\* LinkStateScraper: the SSH session and the calls of scrape
\* ------------------------------------------------------------------------

\* The number of calls of scrape after which the node is no longer followed.
MaxScrapes == 4

\* The connection attempts that _connect_ssh takes for failed: the
\* exceptions of its except clause.
CaughtConnectErrors == {"AuthenticationException", "SSHException", "TimeoutError"}

\* What self.ssh.connect does: it returns, or raises one of the exceptions
\* that paramiko documents for it: AuthenticationException, SSHException
\* (BadHostKeyException among them), and socket.error, which is TimeoutError
\* for a timeout and another OSError otherwise (NoValidConnectionsError for
\* a refused connection or an unreachable host).
ConnectResults == {"connected", "OSError"} \cup CaughtConnectErrors

\* What becomes of the remote read: output that is published; no output;
\* text on stderr; paramiko.SSHException from exec_command; another
\* exception (EOFError or socket.error from the transport, or an exception
\* of parse_and_publish on the output).
ReadResults == {"output", "no_output", "remote_error", "SSHException", "other_exception"}

\* The state after __init__ of LinkStateScraper.
InitScraper ==
    /\ scraper = [pc |-> "idle", ssh_connected |-> FALSE, session |-> "closed",
                  scrapes |-> 0, reads |-> 0,
                  connect |-> "none", read |-> "none"]
    /\ iperf_server = <<>>
    /\ simulator = <<>>
    /\ NoRuns
    /\ NoNodes
    /\ NoTicks

\* "if not self.ssh_connected:" of _connect_ssh.
NeedsConnect(ssh_connected) == ~ssh_connected

\* _connect_ssh with the connection attempt ending as conn: the fields of
\* the scraper after it, pc being "crashed" when the exception is not caught.
connect_ssh(s, conn) ==
    IF ~NeedsConnect(s.ssh_connected)
    THEN [s EXCEPT !.connect = "none"]
    ELSE IF conn = "connected"
         THEN [s EXCEPT !.ssh_connected = TRUE, !.session = "open", !.connect = conn]
         ELSE IF conn \in CaughtConnectErrors
              THEN [s EXCEPT !.ssh_connected = FALSE, !.connect = conn]
              ELSE [s EXCEPT !.pc = "crashed", !.connect = conn]

\* The body of scrape after _connect_ssh, the remote read ending as read.
read_remote(s, read) ==
    IF s.pc = "crashed" \/ ~s.ssh_connected
    THEN [s EXCEPT !.read = "none"]
    ELSE IF read = "SSHException"
         THEN [s EXCEPT !.reads = @ + 1, !.read = read,
                        !.ssh_connected = FALSE, !.session = "closed"]
         ELSE IF read = "other_exception"
              THEN [s EXCEPT !.reads = @ + 1, !.read = read, !.pc = "crashed"]
              ELSE [s EXCEPT !.reads = @ + 1, !.read = read]

\* The timer calls scrape.
scrape(conn, read) ==
    /\ scraper.pc = "idle"
    /\ scraper.scrapes < MaxScrapes
    /\ scraper' = read_remote(connect_ssh([scraper EXCEPT !.scrapes = @ + 1], conn), read)
    /\ UNCHANGED <<iperf_server, simulator>>
    /\ UNCHANGED <<buildVars, nodeVars, slotVars>>

NextScraper == \E conn \in ConnectResults, read \in ReadResults : scrape(conn, read)

SpecScraper == InitScraper /\ [][NextScraper]_vars

\* ------------------------------------------------------------------------
\* The simulator: schedule_tester.EdgePayloadMonitor and the loop of main
\* ------------------------------------------------------------------------

\* GUARD_TIME of schedule_tester (0.5 s).
tester_GUARD_TIME == 10

\* IPERF_TIME of schedule_tester (3.0 s).
tester_IPERF_TIME == 60

\* SLOT_LENGTH of schedule_tester.
tester_SLOT_LENGTH == tester_GUARD_TIME + tester_IPERF_TIME

\* time.sleep(0.25) of main.
tester_LOOP_SLEEP == 5

\* How many calls of the simulator's edge_slot_runner are followed.
MaxTicks == 2

\* How much later than asked a time.sleep of the simulator may return.
MaxLate == 1

\* The while loop and the return of the simulator's builder.
RECURSIVE tester_while(_, _, _)
tester_while(edges, used, sched) ==
    IF Cardinality(used) < Len(edges)
    THEN LET res == tester_for(edges, 1, [slot |-> <<>>, seen |-> {}, used |-> used])
         IN  tester_while(edges, res.used, Append(sched, res.slot))
    ELSE sched

\* schedule_tester.edge_coloring_schedule for a list of distinct addresses.
tester_edge_coloring_schedule(nodes, orange) ==
    tester_while(tester_edges(nodes, orange), {}, <<>>)

\* The configurations: the addresses of hostname_to_ip_mapping followed by
\* orange_box_ips, all distinct, the first hosts of them being payloads.
SimConfigs ==
    {c \in [listing : DistinctLists, hosts : 1..MaxNodes] : c.hosts <= Len(c.listing)}

\* The state after EdgePayloadMonitor(config) in main, at any time of day.
InitSimulator ==
    /\ \E c \in SimConfigs, now \in 0..(tester_SLOT_LENGTH - 1) :
         LET orange == {c.listing[i] : i \in (c.hosts + 1)..Len(c.listing)}
             sched == tester_edge_coloring_schedule(sorted(c.listing), orange)
         IN  simulator = [pc |-> "loop",
                          my_ip |-> c.listing[1],
                          schedule |-> sched,
                          num_slots |-> Len(sched),
                          now |-> now,
                          ticks |-> 0,
                          slot_idx |-> <<>>,
                          ran |-> "nothing"]
    /\ iperf_server = <<>>
    /\ scraper = <<>>
    /\ NoRuns
    /\ NoNodes
    /\ NoTicks

\* "slot_idx = int(now // SLOT_LENGTH) % self.num_slots" raises
\* ZeroDivisionError.
tester_slot_raises(n_slots) == n_slots = 0

\* One call of the simulator's edge_slot_runner from main's loop, with the
\* sleeps of the call and of the loop; late is how much the sleeps overrun.
tester_edge_slot_runner(late) ==
    /\ simulator.pc = "loop"
    /\ simulator.ticks < MaxTicks
    /\ LET now == simulator.now
           s == [simulator EXCEPT !.ticks = @ + 1]
       IN  IF tester_slot_raises(simulator.num_slots)
           THEN simulator' = [s EXCEPT !.pc = "ZeroDivisionError", !.ran = "nothing"]
           ELSE
               LET slot_idx == (now \div tester_SLOT_LENGTH) % simulator.num_slots
                   slotted_comms == simulator.schedule[slot_idx + 1]
                   slot_start == (now \div tester_SLOT_LENGTH) * tester_SLOT_LENGTH
                   end_start_window == slot_start + tester_GUARD_TIME
                   slot_end == slot_start + tester_SLOT_LENGTH
                   my_test_partner == MyTestPartner(slotted_comms, 1, simulator.my_ip)
               IN  IF NowIsInStartWindow(now, slot_start, end_start_window)
                      /\ my_test_partner # None
                   THEN simulator' = [s EXCEPT
                            !.slot_idx = <<slot_idx>>,
                            !.ran = "run_iperf",
                            !.now = now + tester_IPERF_TIME + tester_LOOP_SLEEP + late]
                   ELSE simulator' = [s EXCEPT
                            !.slot_idx = <<slot_idx>>,
                            !.ran = "wait_for_next_slot",
                            !.now = slot_end + tester_LOOP_SLEEP + late]
    /\ UNCHANGED <<iperf_server, scraper>>
    /\ UNCHANGED <<buildVars, nodeVars, slotVars>>

\* KeyboardInterrupt ends the loop of main.
KeyboardInterrupt ==
    /\ simulator.pc = "loop"
    /\ simulator' = [simulator EXCEPT !.pc = "shut down"]
    /\ UNCHANGED <<iperf_server, scraper>>
    /\ UNCHANGED <<buildVars, nodeVars, slotVars>>

NextSimulator ==
    \/ \E late \in 0..MaxLate : tester_edge_slot_runner(late)
    \/ KeyboardInterrupt

SpecSimulator == InitSimulator /\ [][NextSimulator]_vars

\* ------------------------------------------------------------------------
\* The slot arithmetic on its own: successive calls of edge_slot_runner
\* ------------------------------------------------------------------------

InitSlot ==
    /\ tick_num_slots \in 1..MaxNumSlots
    /\ tick_calls = <<>>
    /\ NoRuns
    /\ NoNodes
    /\ NoServices

\* now = time.time() and the three assignments that follow it, in the first
\* call and in a second one that reads a later time.
SlotOfCall(now) ==
    /\ Len(tick_calls) < 2
    /\ tick_calls # <<>> => now > tick_calls[Len(tick_calls)].now
    /\ tick_calls' = Append(tick_calls,
                            [now |-> now,
                             slot_idx |-> FloatSlotIdx(now, tick_num_slots),
                             slot_start |-> FloatSlotStart(now)])
    /\ UNCHANGED tick_num_slots
    /\ UNCHANGED buildVars
    /\ UNCHANGED nodeVars
    /\ UNCHANGED serviceVars

NextSlot == \E now \in Times : SlotOfCall(now)

SpecSlot == InitSlot /\ [][NextSlot]_vars

\* ------------------------------------------------------------------------
\* Properties of the schedule builder
\* ------------------------------------------------------------------------

\* All edges of a schedule, slot after slot.
RECURSIVE Flatten(_)
Flatten(sched) ==
    IF sched = <<>> THEN <<>> ELSE Head(sched) \o Flatten(Tail(sched))

\* The addresses at the 2 * Len(slot) initiator and responder positions.
Endpoints(slot) ==
    [p \in 1..(2 * Len(slot)) |-> slot[(p + 1) \div 2][IF p % 2 = 1 THEN 1 ELSE 2]]

\* No address occurs at two positions of the slot.
IsMatching(slot) ==
    \A p, q \in 1..(2 * Len(slot)) : p # q => Endpoints(slot)[p] # Endpoints(slot)[q]

\* The number of positions of a sequence holding x.
Count(s, x) == Cardinality({i \in 1..Len(s) : s[i] = x})

\* The valid directed pairs of the builder's arguments.
ValidPairs ==
    {<<a, b>> : a \in Range(nodes_in) \ orange_in, b \in Range(nodes_in)} \
    {<<a, a>> : a \in Addr}

\* C1: once the while loop of a run has ended, and in every state on the way,
\* every slot in the run's schedule is a matching (no address at two of its
\* initiator and responder positions), and the verification step does not
\* raise ValueError.
C1_SlotsAreMatchings ==
    \A r \in Runs :
        /\ \A k \in 1..Len(run_schedule[r]) : IsMatching(run_schedule[r][k])
        /\ run_pc[r] # "raised"

\* C1 witness: a run has returned a schedule with a slot of two edges whose
\* initiators include an address that a later edge of the scan order had to
\* skip, with a non-empty non-initiator subset.
C1_Witness ==
    /\ run_pc[1] = "returned"
    /\ Len(nodes_in) = MaxNodes
    /\ orange_in # {}
    /\ \E k \in 1..Len(run_schedule[1]) : Len(run_schedule[1][k]) >= 2

\* C2: for at least 2 addresses, the concatenation of the slots of a returned
\* schedule holds every valid pair (a, b), a # b, a not a non-initiator,
\* exactly once, and holds nothing else.
C2_EveryPairOnce ==
    \A r \in Runs :
        (run_pc[r] = "returned" /\ Len(nodes_in) >= 2) =>
            LET all == Flatten(run_schedule[r])
            IN  /\ Range(all) = ValidPairs
                /\ \A e \in ValidPairs : Count(all, e) = 1

\* C2 witness: a returned schedule of several slots for a list of at least
\* 3 addresses of which one may not initiate.
C2_Witness ==
    /\ run_pc[1] = "returned"
    /\ Len(nodes_in) >= 3
    /\ Cardinality(orange_in \cap Range(nodes_in)) = 1
    /\ Len(run_schedule[1]) >= 2
    /\ Len(Flatten(run_schedule[1])) = (Len(nodes_in) - 1) * (Len(nodes_in) - 1)

SlotBoundary(t) ==
    CHOOSE k \in 0..t : /\ k % SLOT_LENGTH = 0
                        /\ \A j \in (k + 1)..t : j % SLOT_LENGTH # 0

\* t lies in the execution window of its slot.
InExecutionWindow(t) ==
    SlotBoundary(t) <= t /\ t < SlotBoundary(t) + GENERAL_TIMING_BUFFER

\* The slot of n's schedule that is current at the time t.
CurrentSlot(n, t) == schedule[n][((t \div SLOT_LENGTH) % Len(schedule[n])) + 1]

\* The responder of the edge of the slot whose initiator is n, or None.
PartnerIn(slot, n) ==
    IF \E i \in 1..Len(slot) : slot[i][1] = n
    THEN slot[CHOOSE i \in 1..Len(slot) : slot[i][1] = n][2]
    ELSE None

\* A subprocess of n is running: n is the initiator of a test in flight.
InFlight(n) == pc[n] \in {"ping", "iperf"}

\* The step is a call of edge_slot_runner by n that gets past the check of
\* the schedule.
Ticks(n) == pc[n] = "idle" /\ pc'[n] \in {"sleep", "ping"}

\* The step starts no subprocess of n and publishes nothing for n.
Quiet(n) ==
    /\ launched'[n] = launched[n]
    /\ ping_pub'[n] = ping_pub[n]
    /\ iperf_pub'[n] = iperf_pub[n]

\* The subprocesses of one kind that n has started, oldest first.
LaunchedOf(n, kind) == SelectSeq(launched[n], LAMBDA x : x.kind = kind)

C6_DoneBeforeBoundary ==
    \A n \in procs :
        (InFlight(n) /\ InExecutionWindow(loc[n].now)) =>
            clock < SlotBoundary(loc[n].now) + SLOT_LENGTH

\* C6 witness: the latest possible case: the call sampled the last instant of
\* the window, the ping took its whole timeout, and the bandwidth probe has
\* reached its timeout.
C6_Witness ==
    \E n \in procs :
        /\ pc[n] = "iperf"
        /\ loc[n].now = SlotBoundary(loc[n].now) + GENERAL_TIMING_BUFFER - 1
        /\ probe[n].started = loc[n].now + PING_TIMEOUT_BUFFER
        /\ clock = probe[n].started + IPERF_TIME + IPERF_TIMEOUT_BUFFER

\* C7: a call of edge_slot_runner inside the window whose slot gives the
\* node a partner that is not in the reachable set starts no probe and
\* publishes nothing; a running probe always targets a reachable address.
C7_ReachabilityGate ==
    [][\A n \in procs :
          /\ (/\ Ticks(n)
              /\ InExecutionWindow(clock)
              /\ PartnerIn(CurrentSlot(n, clock), n) # None
              /\ PartnerIn(CurrentSlot(n, clock), n) \notin reachable[n])
             => (pc'[n] = "sleep" /\ Quiet(n))
          /\ InFlight(n)' => probe'[n].ip \in reachable'[n]
      ]_vars

\* C7 witness: inside the window a monitor sleeps without a probe; its slot
\* gives it a partner, and its reachable set is not empty but lacks the partner.
C7_Witness ==
    \E n \in procs :
        /\ pc[n] = "sleep"
        /\ InExecutionWindow(clock)
        /\ loc[n].slot_end = SlotBoundary(clock) + SLOT_LENGTH
        /\ launched[n] = <<>>
        /\ reachable[n] # {}
        /\ PartnerIn(CurrentSlot(n, clock), n) # None
        /\ PartnerIn(CurrentSlot(n, clock), n) \notin reachable[n]

\* C8: among the subprocesses a monitor has started, no two of the same kind
\* were started in the same slot interval [k * SLOT_LENGTH, (k+1) * SLOT_LENGTH).
C8_NoRetryInSlot ==
    \A n \in procs :
        \A i, j \in 1..Len(launched[n]) :
            (i < j /\ launched[n][i].kind = launched[n][j].kind) =>
                launched[n][i].slot # launched[n][j].slot

\* C8 witness: after a ping that failed or timed out, the monitor has started
\* its next ping, in the following slot.
C8_Witness ==
    \E n \in procs :
        /\ Len(launched[n]) = 2
        /\ launched[n][1].kind = "ping"
        /\ launched[n][2].kind = "ping"
        /\ launched[n][2].slot = launched[n][1].slot + 1
        /\ ~ping_pub[n][1].ok

\* C9: every probe a monitor has started and that is over has exactly one
\* record on its channel, naming the partner, in the order of the probes; the
\* record of a probe that exited non-zero or was killed at its timeout has
\* ok = false; and no exception has left edge_slot_runner.
C9_EveryProbePublishes ==
    \A n \in procs :
        LET pings  == LaunchedOf(n, "ping")
            iperfs == LaunchedOf(n, "iperf")
        IN  /\ Len(pings) = Len(ping_pub[n]) + (IF pc[n] = "ping" THEN 1 ELSE 0)
            /\ Len(iperfs) = Len(iperf_pub[n]) + (IF pc[n] = "iperf" THEN 1 ELSE 0)
            /\ \A i \in 1..Len(ping_pub[n]) : ping_pub[n][i].ip = pings[i].ip
            /\ \A i \in 1..Len(iperf_pub[n]) : iperf_pub[n][i].ip = iperfs[i].ip
            /\ (probe[n].kind = "ping" /\ probe[n].status \in {"nonzero", "timeout"}) =>
                  ~ping_pub[n][Len(ping_pub[n])].ok
            /\ (probe[n].kind = "iperf" /\ probe[n].status \in {"nonzero", "timeout"}) =>
                  ~iperf_pub[n][Len(iperf_pub[n])].ok
            /\ ~(pc[n] = "crashed" /\ probe[n].kind = "iperf")

\* C10 as stated: the timeout of a running connectivity probe is strictly
\* smaller than the time that remained in the execution window when the call
\* sampled its time.
C10_TimeoutWithinWindow ==
    \A n \in procs :
        pc[n] = "ping" =>
            probe[n].timeout <
                (SlotBoundary(loc[n].now) + GENERAL_TIMING_BUFFER) - loc[n].now

\* C10 as amended: the timeout of a running connectivity probe is
\* PING_TIMEOUT_BUFFER, strictly smaller than the time that remained, when
\* the call sampled its time, until the end of the execution window extended
\* by the margin PING_TIMEOUT_BUFFER that the slot reserves for the ping.
C10_TimeoutWithinPingMargin ==
    \A n \in procs :
        pc[n] = "ping" =>
            /\ probe[n].timeout = PING_TIMEOUT_BUFFER
            /\ probe[n].timeout <
                  (SlotBoundary(loc[n].now) + GENERAL_TIMING_BUFFER + PING_TIMEOUT_BUFFER)
                  - loc[n].now

\* C10 witness: a connectivity probe started at the last instant of the window.
C10_Witness ==
    \E n \in procs :
        /\ pc[n] = "ping"
        /\ probe[n].started = loc[n].now
        /\ loc[n].now = SlotBoundary(loc[n].now) + GENERAL_TIMING_BUFFER - 1

\* C11: a bandwidth probe is started only by the step in which the ping of
\* the same call, to the same partner, has returned success and its record
\* has been published; when the ping fails or times out the call goes to its
\* sleep, and until it returns no bandwidth probe is started and no
\* bandwidth record is published.
C11_IperfOnlyAfterPingSuccess ==
    [][\A n \in procs :
          /\ (/\ Len(launched'[n]) > Len(launched[n])
              /\ launched'[n][Len(launched'[n])].kind = "iperf")
                => /\ pc[n] = "ping"
                   /\ probe[n].kind = "ping"
                   /\ probe[n].started >= loc[n].now
                   /\ loc[n].now >= 0
                   /\ loc'[n] = loc[n]
                   /\ Len(ping_pub'[n]) = Len(ping_pub[n]) + 1
                   /\ ping_pub'[n][Len(ping_pub'[n])].ok
                   /\ ping_pub'[n][Len(ping_pub'[n])].ip = probe[n].ip
                   /\ launched'[n][Len(launched'[n])].ip = probe[n].ip
                   /\ loc[n].my_test_partner = probe[n].ip
          /\ (/\ pc[n] = "ping"
              /\ probe'[n].kind = "ping"
              /\ probe'[n].status \in {"nonzero", "timeout"})
                => /\ pc'[n] = "sleep"
                   /\ ~ping_pub'[n][Len(ping_pub'[n])].ok
                   /\ launched'[n] = launched[n]
                   /\ iperf_pub'[n] = iperf_pub[n]
          /\ (pc[n] = "sleep" /\ probe[n].kind = "ping")
                => /\ launched'[n] = launched[n]
                   /\ iperf_pub'[n] = iperf_pub[n]
                   /\ pc'[n] \in {"sleep", "idle"}
      ]_vars

\* A ping has timed out and the call sleeps, no bandwidth probe started.
C11_Witness ==
    \E n \in procs :
        /\ pc[n] = "sleep"
        /\ probe[n].kind = "ping"
        /\ probe[n].status = "timeout"
        /\ Len(launched[n]) = 1
        /\ iperf_pub[n] = <<>>


\* C14: the slot index and the edge set a call of a node of the mapping
\* uses at the time t depend on t and on the configuration only.  Whatever
\* the node has done before, and whether or not its process has been started
\* anew, its schedule is the one the builder yields for the configured
\* addresses (it is so at the start and no step changes it), and a call at
\* the time t uses the slot floor(t / SLOT_LENGTH) mod num_slots of it,
\* sleeps to the end of that slot, and probes the partner that slot gives it.
C14_RestartIndependence ==
    /\ \A n \in procs \ {None} :
          /\ schedule[n] = edge_coloring_schedule(node_list, Range(orange_box_ips))
          /\ num_slots[n] = Len(schedule[n])
    /\ [][\A n \in procs \ {None} :
              LET idx == (SlotBoundary(clock) \div SLOT_LENGTH) % Len(schedule[n])
              IN  /\ schedule'[n] = schedule[n]
                  /\ num_slots'[n] = num_slots[n]
                  /\ UNCHANGED <<node_list, orange_box_ips>>
                  /\ Ticks(n) => loc'[n].slot_end = SlotBoundary(clock) + SLOT_LENGTH
                  /\ (Ticks(n) /\ pc'[n] = "ping")
                        => /\ loc'[n].now = clock
                           /\ loc'[n].slot_idx = idx
                           /\ loc'[n].my_test_partner = PartnerIn(schedule[n][idx + 1], n)
                           /\ probe'[n].ip = PartnerIn(schedule[n][idx + 1], n)
         ]_vars

\* A process that has been started anew is in the ping of a call.
C14_Witness ==
    \E n \in procs :
        /\ restarts[n] > 0
        /\ pc[n] = "ping"
        /\ loc[n].now > deadline - SLOT_LENGTH - Overrun

\* C15: after peer_list_cb has taken in a well-formed message with the peer
\* list P the reachable set is exactly the set of the elements of P; every
\* value of the reachable set a call can observe is the empty set of
\* __init__ or the whole set of one message, the last one taken in, and the
\* steps that change it are steps of the callback between two calls.
C15_WholesaleReplacement ==
    /\ [](\A n \in procs :
            reachable[n] = IF last_peers[n].seen THEN Range(last_peers[n].peers) ELSE {})
    /\ [][\A n \in procs :
              (reachable'[n] # reachable[n] \/ last_peers'[n] # last_peers[n])
                 => \/ /\ pc[n] = "idle" /\ pc'[n] = "idle"
                       /\ last_peers'[n].seen
                       /\ reachable'[n] = Range(last_peers'[n].peers)
                    \/ restarts'[n] # restarts[n]
         ]_vars

\* A call that has started a probe observes the set of a message of one
\* peer, taken in after a message had put other peers into the set.
C15_Witness ==
    \E n \in procs :
        /\ last_peers[n].seen
        /\ Len(last_peers[n].peers) = 1
        /\ reachable[n] = Range(last_peers[n].peers)
        /\ pc[n] = "ping"
        /\ Len(launched[n]) > 1

\* C16: until the process has taken in its first peer-list message its
\* reachable set is empty, and in that period it has started no subprocess
\* and published nothing; every call of that period ends in the sleep to the
\* end of the slot, and a call is never held up for want of a message: the
\* timer can run it whenever the executor is free.
C16_QuietUntilFirstUpdate ==
    /\ [](\A n \in procs : ~last_peers[n].seen =>
              /\ reachable[n] = {}
              /\ launched[n] = <<>>
              /\ ping_pub[n] = <<>>
              /\ iperf_pub[n] = <<>>
              /\ pc[n] \in {"idle", "sleep", "crashed"}
              /\ pc[n] = "idle" => ENABLED edge_slot_runner(n))
    /\ [][\A n \in procs : (~last_peers[n].seen /\ Ticks(n)) =>
              /\ Quiet(n)
              /\ pc'[n] = "sleep"
              /\ loc'[n].wake = SlotBoundary(clock) + SLOT_LENGTH
         ]_vars

\* Before any message a call at the beginning of a slot that gives the node
\* a partner has gone to sleep without a probe.
C16_Witness ==
    \E n \in procs :
        /\ ~last_peers[n].seen
        /\ pc[n] = "sleep"
        /\ clock = SlotBoundary(clock)
        /\ PartnerIn(CurrentSlot(n, clock), n) # None
        /\ launched[n] = <<>>

\* C17: in a returned schedule no address of orange_box_ips is the initiator
\* of an edge of any slot, while every such address of the node list is the
\* responder of an edge from every address that may initiate; so the loop of
\* edge_slot_runner that looks for the node's partner finds none, in any
\* slot, for a node with an address of orange_box_ips.
C17_NonInitiators ==
    \A r \in Runs :
        run_pc[r] = "returned" =>
            LET sched == run_schedule[r]
                all   == Flatten(sched)
            IN  /\ \A i \in 1..Len(all) : all[i][1] \notin orange_in
                /\ \A o \in orange_in \cap Range(nodes_in) :
                      \A a \in Range(nodes_in) \ orange_in :
                          \E i \in 1..Len(all) : all[i] = <<a, o>>
                /\ \A o \in orange_in :
                      \A k \in 1..Len(sched) : MyTestPartner(sched[k], 1, o) = None

\* A returned schedule for two addresses that may initiate and two that may
\* not.
C17_Witness ==
    /\ run_pc[2] = "returned"
    /\ Cardinality(orange_in \cap Range(nodes_in)) = 2
    /\ Cardinality(Range(nodes_in) \ orange_in) = 2
    /\ Len(Flatten(run_schedule[2])) = 6

\* C18: for no address or one address, and for addresses none of which may
\* initiate, the builder returns the empty schedule; and a monitor whose
\* schedule is empty takes no step but those of peer_list_cb: its calls of
\* edge_slot_runner compute no locals, start no subprocess, publish nothing
\* and leave the process running.
C18_EmptyScheduleNoOp ==
    /\ [](\A r \in Runs :
            (RunOver(r) /\ (Len(nodes_in) <= 1 \/ Range(nodes_in) \subseteq orange_in))
                => run_pc[r] = "returned" /\ run_schedule[r] = <<>>)
    /\ [](\A n \in procs :
            /\ Len(node_list) <= 1 => schedule[n] = <<>>
            /\ schedule[n] = <<>> =>
                  /\ num_slots[n] = 0
                  /\ loc[n] = NoCall
                  /\ probe[n] = NoProbe
                  /\ launched[n] = <<>>
                  /\ ping_pub[n] = <<>>
                  /\ iperf_pub[n] = <<>>
                  /\ pc[n] = "idle" => ENABLED edge_slot_runner(n))
    /\ [][\A n \in procs :
              (schedule[n] = <<>> /\ pc'[n] # pc[n])
                  => /\ pc[n] = "idle"
                     /\ pc'[n] = "crashed"
                     /\ UNCHANGED <<reachable, last_peers, clock>>
         ]_vars

\* A monitor with an empty schedule, idle in the middle of a slot after it
\* has taken in a peer list.
C18_Witness ==
    \E n \in procs :
        /\ schedule[n] = <<>>
        /\ pc[n] = "idle"
        /\ clock > SlotBoundary(clock) + GENERAL_TIMING_BUFFER
        /\ reachable[n] # {}

\* C19: a process on a host whose hostname is no key of the mapping is over
\* when its constructor has raised: it has no schedule, and it never takes
\* a step: no call of edge_slot_runner, no peer_list_cb, no subprocess, no
\* publication, for all the time the clock runs.
C19_UnknownHostFailsAtStartup ==
    /\ [](\A n \in procs : n = None =>
              /\ pc[n] = "crashed"
              /\ schedule[n] = <<>>
              /\ num_slots[n] = 0
              /\ ~last_peers[n].seen
              /\ loc[n] = NoCall
              /\ probe[n] = NoProbe
              /\ launched[n] = <<>>
              /\ ping_pub[n] = <<>>
              /\ iperf_pub[n] = <<>>
              /\ ~ENABLED edge_slot_runner(n)
              /\ \A msg \in PeerMsgs : ~ENABLED peer_list_cb(n, msg))
    /\ [][\A n \in procs : n = None =>
              UNCHANGED <<pc[n], schedule[n], reachable[n], loc[n], probe[n]>>
         ]_vars

\* The process without an address is over, one slot after its start.
C19_Witness ==
    /\ None \in procs
    /\ pc[None] = "crashed"
    /\ clock >= deadline - Overrun

\* C20: whenever the output of the bandwidth probe is not a well-formed
\* result (text that is not JSON, or JSON without the throughput), the
\* return of run_iperf publishes one record with ok false and the call goes
\* on to its sleep: the process is not ended by an exception.
C20_MalformedIsFailure ==
    [][\A n \in procs :
          (pc[n] = "iperf" /\ pc'[n] # "iperf" /\ restarts'[n] = restarts[n])
             => /\ pc'[n] = "sleep"
                /\ Len(iperf_pub'[n]) = Len(iperf_pub[n]) + 1
                /\ LET rec == iperf_pub'[n][Len(iperf_pub'[n])]
                   IN  rec.raw # "throughput" => ~rec.ok
      ]_vars

\* C21: for 3 distinct addresses and an empty non-initiator subset, every
\* slot the builder has appended holds exactly one edge, so no slot holds two
\* edges with a common endpoint; the verification step does not raise, and
\* the returned schedule has 6 slots that hold 6 distinct directed edges, the
\* ordered pairs of distinct addresses of the list.
C21_ThreeNodesSixSlots ==
    \A r \in Runs :
        (Len(nodes_in) = 3 /\ orange_in = {}) =>
            LET sched == run_schedule[r]
                all   == Flatten(sched)
            IN  /\ \A k \in 1..Len(sched) : Len(sched[k]) = 1 /\ IsMatching(sched[k])
                /\ run_pc[r] # "raised"
                /\ Cardinality(Range(all)) = Len(all)
                /\ run_pc[r] = "returned" =>
                      /\ Len(sched) = 6
                      /\ Len(all) = 6
                      /\ Range(all) = {<<a, b>> \in Range(nodes_in) \X Range(nodes_in) : a # b}

\* The second run has returned for 3 addresses that are not in ascending
\* order, all of which may initiate.
C21_Witness ==
    /\ run_pc[2] = "returned"
    /\ Len(nodes_in) = 3
    /\ orange_in = {}
    /\ nodes_in[1] > nodes_in[2]
    /\ Len(run_schedule[2]) = 6

\* The step appends an entry to the subprocesses n has started.
Launches(n) == Len(launched'[n]) = Len(launched[n]) + 1

\* The positions of the edges of a slot whose initiator is n.
InitiatorPositions(slot, n) == {i \in 1..Len(slot) : slot[i][1] = n}

\* C22: a subprocess is started only for the slot that is current: the ping
\* of a call that samples the time now goes to the responder of the one edge
\* of schedule[floor(now / SLOT_LENGTH) mod num_slots] whose initiator is
\* the node, the bandwidth probe of the call goes to the same address while
\* that slot still lasts, and a call in a slot without an edge whose
\* initiator is the node starts nothing, publishes nothing and sleeps.  So no
\* probe goes to the partner of an earlier slot.
C22_NoCatchUp ==
    [][\A n \in procs :
          /\ Launches(n) =>
                LET e    == launched'[n][Len(launched'[n])]
                    now  == loc'[n].now
                    slot == schedule[n][((now \div SLOT_LENGTH) % num_slots[n]) + 1]
                IN  /\ launched[n] = SubSeq(launched'[n], 1, Len(launched[n]))
                    /\ now >= 0
                    /\ e.kind = "ping" => (Ticks(n) /\ now = clock)
                    /\ e.kind = "iperf" => (pc[n] = "ping" /\ loc[n].now = now)
                    /\ SlotBoundary(now) = SlotBoundary(clock)
                    /\ e.slot = clock \div SLOT_LENGTH
                    /\ Cardinality(InitiatorPositions(slot, n)) = 1
                    /\ e.ip = slot[CHOOSE i \in InitiatorPositions(slot, n) : TRUE][2]
                    /\ probe'[n].ip = e.ip
                    /\ probe'[n].kind = e.kind
          /\ ~Launches(n) => launched'[n] = launched[n] \/ restarts'[n] # restarts[n]
          /\ (Ticks(n) /\ InitiatorPositions(CurrentSlot(n, clock), n) = {})
                => (pc'[n] = "sleep" /\ Quiet(n))
      ]_vars

\* A monitor is in the ping of the second slot of its run, its only probe;
\* the first slot gave it another partner, which is in its reachable set,
\* and went by without a probe.
C22_Witness ==
    \E n \in procs :
        /\ pc[n] = "ping"
        /\ Len(launched[n]) = 1
        /\ clock >= deadline - Overrun
        /\ PartnerIn(CurrentSlot(n, clock - SLOT_LENGTH), n) \in reachable[n] \ {probe[n].ip}

\* The addresses b for which (n, b) is a valid directed pair of the
\* configuration.
ValidPartners(n) ==
    IF n \in Range(node_list) \ Range(orange_box_ips)
    THEN Range(node_list) \ {n}
    ELSE {}

\* The slot intervals of the observed cycle, by their number since time 0.
CycleSlots(n) ==
    ((deadline \div SLOT_LENGTH) - num_slots[n])..((deadline \div SLOT_LENGTH) - 1)

\* The pings n has started against b in the slots of the observed cycle.
PingsAgainst(n, b) ==
    {i \in 1..Len(launched[n]) :
        /\ launched[n][i].kind = "ping"
        /\ launched[n][i].ip = b
        /\ launched[n][i].slot \in CycleSlots(n)}

\* C23: in the schedule of a monitor that has an address, every valid
\* directed pair (a, b) is an edge of exactly one of the num_slots
\* consecutive slot intervals of the observed cycle, wherever in the schedule
\* the cycle begins (it is so at the start, and no step changes the schedule
\* or the configuration); a monitor that ticks in the execution window of
\* every slot, with every peer in its reachable set, has at no time started
\* two pings against the same partner in the cycle, and the cycle comes to
\* its end with exactly one ping started against each of its partners.
C23_FullCycleFairness ==
    /\ \A n \in procs \ {None} : \A a \in Range(node_list) : \A b \in ValidPartners(a) :
          Cardinality({j \in CycleSlots(n) :
                         \E i \in 1..Len(CurrentSlot(n, j * SLOT_LENGTH)) :
                             CurrentSlot(n, j * SLOT_LENGTH)[i] = <<a, b>>}) = 1
    /\ [][UNCHANGED <<schedule, num_slots, deadline, node_list, orange_box_ips, procs>>]_vars
    /\ [][\A n \in procs :
              (Launches(n) /\ probe'[n].kind = "ping" /\ clock < deadline)
                  => /\ PingsAgainst(n, probe'[n].ip) = {}
                     /\ probe'[n].ip \in ValidPartners(n)
         ]_vars
    /\ <>(/\ clock = deadline
          /\ \A n \in procs : \A b \in ValidPartners(n) :
                Cardinality(PingsAgainst(n, b)) = 1)

\* A monitor of a schedule of several slots, whose cycle did not begin with
\* slot 0, has come to the end of the cycle with its pings started.
C23_Witness ==
    \E n \in procs :
        /\ clock = deadline
        /\ num_slots[n] > 2
        /\ ((deadline \div SLOT_LENGTH) - num_slots[n]) % num_slots[n] # 0
        /\ Cardinality(ValidPartners(n)) >= 2
        /\ \A b \in ValidPartners(n) : Cardinality(PingsAgainst(n, b)) = 1

\* A call of edge_slot_runner by n is running.
InCall(n) == pc[n] \in {"ping", "iperf", "sleep"}

\* C24: a call of edge_slot_runner that gets past the check of the schedule
\* keeps, whatever path it takes, the slot end it has computed from its
\* sample of the time, the end of the slot of the sample; it returns only
\* from the sleep of _wait_for_next_slot and not before that slot end; and
\* the next call of the node samples the time in a later slot.
C24_ReturnsAtSlotEnd ==
    [][\A n \in procs :
          /\ Ticks(n) =>
                /\ loc'[n].slot_end = SlotBoundary(clock) + SLOT_LENGTH
                /\ sampled_slot'[n] * SLOT_LENGTH = SlotBoundary(clock)
          /\ (InCall(n) /\ InCall(n)') =>
                /\ loc'[n].slot_end = loc[n].slot_end
                /\ sampled_slot'[n] = sampled_slot[n]
          /\ (InCall(n) /\ pc'[n] = "idle") =>
                /\ pc[n] = "sleep"
                /\ loc[n].slot_end = (sampled_slot[n] + 1) * SLOT_LENGTH
                /\ clock >= loc[n].slot_end
          /\ (Ticks(n) /\ sampled_slot[n] >= 0) =>
                SlotBoundary(clock) > sampled_slot[n] * SLOT_LENGTH
      ]_vars

\* A second call is running, in the slot after that of the first, which had
\* run both probes.
C24_Witness ==
    \E n \in procs :
        /\ InCall(n)
        /\ iperf_pub[n] # <<>>
        /\ Len(ping_pub[n]) = 1
        /\ sampled_slot[n] * SLOT_LENGTH = deadline - Overrun

\* C25: with a timer that is called as soon as it is due and the executor is
\* free, and with probes that respect their timeouts, every call of
\* edge_slot_runner after a monitor's first one samples the time exactly at
\* a slot boundary, hence inside the execution window, and in the slot
\* directly after the one sampled before: no slot but the first is missed.
C25_SlotAlignment ==
    [][\A n \in procs :
         (Ticks(n) /\ sampled_slot[n] >= 0) =>
             /\ clock = SlotBoundary(clock)
             /\ InExecutionWindow(clock)
             /\ sampled_slot'[n] = sampled_slot[n] + 1]_vars

\* The monitors whose subprocess in flight has the address a as an endpoint,
\* as the initiator or as the responder.
TestsAt(a) == {n \in procs : InFlight(n) /\ a \in {n, probe[n].ip}}

\* C26: when the clocks of the nodes differ by a positive amount smaller
\* than the width of the execution window, and every subprocess is over by
\* its timeout, still no address is an endpoint of two tests in flight at
\* the same instant of the wall clock.
C26_SkewRobustness ==
    \A a \in DOMAIN pc \cup {probe[n].ip : n \in procs} :
        Cardinality(TestsAt(a)) <= 1

\* C27: while a subprocess started by a monitor is running, or the monitor
\* waits for the end of the slot, the monitor can begin a new call of
\* edge_slot_runner and can apply a peer list.
C27_TickLoopNotStarved ==
    \A n \in procs :
        InCall(n) =>
            /\ ENABLED edge_slot_runner(n)
            /\ \E msg \in PeerMsgs : ENABLED peer_list_cb(n, msg)

\* C28: two monitors whose configurations hold the same distinct addresses
\* and the same orange boxes, listed in different orders, have the same
\* schedule: both builders are given the same sorted node list, both end
\* in the same way and both constructors leave the same schedule.
C28_CanonicalOrdering ==
    /\ \A r \in Runs : run_pc[r] # "start" => nodes_in = sorted(listed[1])
    /\ (RunOver(1) /\ RunOver(2)) =>
           /\ run_pc[1] = run_pc[2]
           /\ run_schedule[1] = run_schedule[2]

\* C28 witness: two constructors have returned a schedule of more than one
\* slot from lists of the same addresses in different orders, neither of
\* them the sorted one.
C28_Witness ==
    /\ run_pc[1] = "returned" /\ run_pc[2] = "returned"
    /\ Range(listed[1]) = Range(listed[2])
    /\ listed[1] # listed[2]
    /\ listed[1] # sorted(listed[1]) /\ listed[2] # sorted(listed[2])
    /\ Len(run_schedule[2]) > 1
    /\ orange_in # {}

\* C29: no call of edge_slot_runner, no call of peer_list_cb, no end of a
\* subprocess and no passage of time changes self.schedule or
\* self.num_slots of a monitor: in every step both keep their values, and
\* num_slots stays the length of the schedule, as __init__ has set it.
C29_ScheduleImmutable ==
    [][\A n \in procs :
         /\ schedule'[n] = schedule[n]
         /\ num_slots'[n] = num_slots[n]
         /\ num_slots'[n] = Len(schedule'[n])]_vars

\* C29 witness: a monitor with a schedule has taken in a peer list, has run
\* both probes in a call of edge_slot_runner and has come to the end of the
\* slot.
C29_Witness ==
    \E n \in procs :
        /\ schedule[n] # <<>>
        /\ last_peers[n].seen
        /\ ping_pub[n] # <<>> /\ iperf_pub[n] # <<>>
        /\ sampled_slot[n] >= 0
        /\ pc[n] = "idle"
        /\ clock > SlotBoundary(clock)

\* C30: the reachable set of a monitor has no expiry.  A step in which a
\* call of edge_slot_runner begins, goes on or ends, in which a record is
\* published or in which time passes leaves the set as it is, and so does
\* every step that takes in no peer list; in particular the partner of a
\* ping that failed or was killed at its timeout stays in the set.
C30_NoExpiry ==
    [][\A n \in procs :
         /\ (\/ Ticks(n)
             \/ InCall(n)
             \/ clock' # clock
             \/ ping_pub'[n] # ping_pub[n]
             \/ iperf_pub'[n] # iperf_pub[n]
             \/ last_peers'[n] = last_peers[n]) => reachable'[n] = reachable[n]
         /\ (pc[n] = "ping" /\ pc'[n] = "sleep" /\ probe[n].ip \in reachable[n])
               => probe[n].ip \in reachable'[n]]_vars

\* C30 witness: the ping of a listed peer has failed or timed out, the
\* monitor has slept to the end of the slot since, and the peer is still in
\* the set, which is that of the last peer list.
C30_Witness ==
    \E n \in procs :
        /\ pc[n] = "sleep"
        /\ clock = loc[n].wake
        /\ Len(ping_pub[n]) = 1
        /\ ~ping_pub[n][1].ok
        /\ iperf_pub[n] = <<>>
        /\ ping_pub[n][1].ip \in reachable[n]
        /\ reachable[n] = Range(last_peers[n].peers)
        /\ Cardinality(reachable[n]) > 1

\* C31: a message that is no peer list is absorbed by peer_list_cb: a step
\* that starts from the free executor and takes in no peer list leaves the
\* reachable set as it is and does not end the process.
C31_BadPeerListAbsorbed ==
    [][\A n \in procs :
         (pc[n] = "idle" /\ last_peers'[n] = last_peers[n]) =>
             /\ reachable'[n] = reachable[n]
             /\ pc'[n] # "crashed"]_vars

\* The position of the edge e in the scan order of the run r.
ScanPosition(r, e) == CHOOSE i \in 1..Len(run_edges[r]) : run_edges[r][i] = e

\* The edges e and f have an endpoint in common.
SharesEndpoint(e, f) == {e[1], e[2]} \cap {f[1], f[2]} # {}

\* C32: the slots are built first-fit.  At every point of a run, for every
\* edge e of a slot k and every earlier slot j, the slot j holds an edge that
\* has an endpoint in common with e and stands before e in the scan order;
\* hence no edge of a later slot could be added to an earlier slot: every
\* slot is a maximal matching of the edges unused when it was built.
C32_GreedyFirstFit ==
    \A r \in Runs :
        \A k \in 1..Len(run_schedule[r]) : \A j \in 1..(k - 1) :
            \A e \in Range(run_schedule[r][k]) :
                \E f \in Range(run_schedule[r][j]) :
                    /\ SharesEndpoint(e, f)
                    /\ ScanPosition(r, f) < ScanPosition(r, e)

\* C32 witness: a returned schedule in which an edge of the last slot was
\* kept out of the first slot by one endpoint only and out of another slot
\* by the other endpoint only.
C32_Witness ==
    /\ run_pc[1] = "returned"
    /\ Len(run_schedule[1]) >= 3
    /\ \E e \in Range(run_schedule[1][Len(run_schedule[1])]) :
          /\ \A f \in Range(run_schedule[1][1]) : e[2] \notin {f[1], f[2]}
          /\ \E j \in 2..(Len(run_schedule[1]) - 1) :
                \A f \in Range(run_schedule[1][j]) : e[1] \notin {f[1], f[2]}

\* C33: on a list of pairwise-distinct addresses the builder terminates.
\* Every pass of the while loop appends a slot that is not empty and whose
\* edges are new in used, so the schedule never has more slots than there
\* are candidate edges, and every run comes to its end.
C33_BuilderTerminates ==
    /\ [][\A r \in Runs :
            run_schedule'[r] # run_schedule[r] =>
                /\ run_schedule'[r] # <<>> => run_schedule'[r][Len(run_schedule'[r])] # <<>>
                /\ run_schedule'[r] # <<>> =>
                      /\ Cardinality(run_used'[r]) > Cardinality(run_used[r])
                      /\ Range(run_schedule'[r][Len(run_schedule'[r])]) \cap run_used[r] = {}
                /\ Len(run_schedule'[r]) <= Len(run_edges'[r])
                /\ Len(run_schedule'[r]) <= Cardinality(run_used'[r])
         ]_vars
    /\ <>(\A r \in Runs : RunOver(r))

\* C33 witness: a run has ended after more than two passes, with fewer
\* slots than candidate edges.
C33_Witness ==
    /\ RunOver(2)
    /\ Len(run_schedule[2]) > 2
    /\ Len(run_schedule[2]) < Len(run_edges[2])
    /\ Cardinality(run_used[2]) = Len(run_edges[2])

\* C34: the builder terminates on every node list, lists with repeated
\* addresses included.  The while loop goes on as long as used is smaller
\* than the list of edges, and one pass changes nothing but used and the
\* schedule, so the loop ends if and only if every pass that is entered
\* enlarges used: whenever a run is at the head of the loop and the loop
\* condition holds, the pass adds an edge to used.
C34_TerminatesOnAnyList ==
    \A r \in Runs :
        (run_pc[r] = "loop" /\ MoreSlots(run_edges[r], run_used[r])) =>
            ScanSlot(run_edges[r], run_used[r]).used # run_used[r]

\* C35: the builder of the simulator and that of the node do the same on
\* every node list and every set of orange boxes.  Both start from the same
\* list of edges; the slots the simulator's builder has appended are the
\* first slots the node's builder has appended, with the same used set after
\* equally many passes; and when both are over both have returned, or both
\* have raised, with the same schedule.
C35_SimulatorBuildsSameSchedule ==
    /\ (run_pc[1] # "start" /\ run_pc[2] # "start") => run_edges[2] = run_edges[1]
    /\ Len(run_schedule[2]) <= Len(run_schedule[1])
    /\ run_schedule[2] = SubSeq(run_schedule[1], 1, Len(run_schedule[2]))
    /\ Len(run_schedule[2]) = Len(run_schedule[1]) => run_used[2] = run_used[1]
    /\ RunOver(2) =>
          /\ run_pc[2] = run_pc[1]
          /\ run_schedule[2] = run_schedule[1]

\* C35 witness: both builders have returned a schedule of several slots for
\* a list of MaxNodes addresses of which one is an orange box.
C35_Witness ==
    /\ run_pc[1] = "returned" /\ run_pc[2] = "returned"
    /\ Len(nodes_in) = MaxNodes
    /\ Cardinality(orange_in \cap Range(nodes_in)) = 1
    /\ Len(run_schedule[2]) > 2

\* C36: the iperf3 server stays available.  At most one instance is alive,
\* and one is alive exactly while the thread is in communicate(); whatever
\* way an instance ends, the thread is back at the head of the loop, from
\* where, the context being ok, it can start the next instance; and the
\* loop is left for good only at the head: on FileNotFoundError of Popen
\* or with the context shut down.
C36_ServerAvailability ==
    /\ [](/\ iperf_server.alive \in {0, 1}
          /\ iperf_server.alive = 1 <=> iperf_server.pc = "communicate"
          /\ (iperf_server.pc = "head" /\ iperf_server.ok
                 /\ iperf_server.started < MaxInstances)
                => ENABLED server_loop_popen("started"))
    /\ [][/\ iperf_server'.alive < iperf_server.alive =>
                /\ iperf_server'.pc = "head"
                /\ iperf_server'.event \in InstanceExits
          /\ (iperf_server'.pc = "ended" /\ iperf_server.pc # "ended") =>
                /\ iperf_server.pc = "head"
                /\ iperf_server.ok
                /\ iperf_server'.event = "FileNotFoundError"
          /\ (iperf_server'.pc = "left" /\ iperf_server.pc # "left") =>
                /\ iperf_server.pc = "head"
                /\ ~iperf_server.ok
          /\ iperf_server.pc \in {"ended", "left"} => iperf_server'.pc = iperf_server.pc
         ]_vars

\* C36 witness: the thread has started one instance after another: the
\* last of MaxInstances instances is alive, and of those that have ended
\* one has served a client and the others have ended in other ways.
C36_Witness ==
    /\ iperf_server.pc = "communicate"
    /\ iperf_server.started = MaxInstances
    /\ iperf_server.published = 1
    /\ iperf_server.ok

\* C37: the SSH session is retried.  A call of scrape issues the remote
\* read only with ssh_connected true; a call that has no session attempts
\* to connect before anything else; a failed attempt leaves ssh_connected
\* false, and the call returns without a read; an SSH error during the read
\* leaves ssh_connected false and the session closed, and the call returns.
C37_SshSessionRetry ==
    [][scraper'.scrapes > scraper.scrapes =>
          /\ scraper'.reads > scraper.reads =>
                (scraper.ssh_connected \/ scraper'.connect = "connected")
          /\ ~scraper.ssh_connected => scraper'.connect # "none"
          /\ scraper'.connect \notin {"none", "connected"} =>
                /\ ~scraper'.ssh_connected
                /\ scraper'.reads = scraper.reads
                /\ scraper'.pc = "idle"
          /\ scraper'.read = "SSHException" =>
                /\ ~scraper'.ssh_connected
                /\ scraper'.session = "closed"
                /\ scraper'.pc = "idle"
     ]_vars

\* C38: the simulator's edge_slot_runner treats an empty schedule as a
\* no-op: with num_slots = 0 a call computes no slot index and raises no
\* error, so main's loop goes on.
C38_SimulatorEmptyScheduleNoOp ==
    simulator.num_slots = 0 /\ simulator.ticks > 0
        => simulator.slot_idx = <<>> /\ simulator.pc # "ZeroDivisionError"

\* ------------------------------------------------------------------------
\* Properties of the slot arithmetic
\* ------------------------------------------------------------------------

\* The number of whole multiples of SLOT_LENGTH that fit in the time t.
WholeSlots(t) ==
    CHOOSE k \in 0..MaxSeconds :
        k * FLOAT_SLOT_LENGTH <= t /\ t < (k + 1) * FLOAT_SLOT_LENGTH

\* C12: for every time now >= 0 and every num_slots >= 1 a call computes
\* the slot index floor(now / SLOT_LENGTH) mod num_slots, which lies in
\* [0, num_slots), and as slot_start the greatest multiple of SLOT_LENGTH
\* not exceeding now, so that slot_start <= now < slot_start + SLOT_LENGTH.
\* The multiple and the end of the slot are taken as the floats nearest to
\* them, so that the rounding of a product or of a sum alone does not
\* count against the statement.
C12_SlotArithmetic ==
    \A i \in DOMAIN tick_calls :
        LET c == tick_calls[i]
            k == WholeSlots(c.now)
        IN  /\ c.slot_idx = k % tick_num_slots
            /\ c.slot_idx \in 0..(tick_num_slots - 1)
            /\ c.slot_start = IntTimesFloat(k, FLOAT_SLOT_LENGTH)
            /\ c.slot_start <= c.now
            /\ c.now <= FloatAdd(c.slot_start, FLOAT_SLOT_LENGTH)

\* C13: two calls at times now1 < now2 of the same slot compute the same
\* slot start and the same slot index; when exactly one multiple of
\* SLOT_LENGTH lies between them the index of the second is that of the
\* first plus one, modulo num_slots.
C13_SlotStability ==
    Len(tick_calls) = 2 =>
        LET c1 == tick_calls[1]
            c2 == tick_calls[2]
            k1 == WholeSlots(c1.now)
            k2 == WholeSlots(c2.now)
        IN  /\ c1.now < c2.now
            /\ k1 = k2 => /\ c1.slot_start = c2.slot_start
                          /\ c1.slot_idx = c2.slot_idx
            /\ k2 = k1 + 1 => c2.slot_idx = (c1.slot_idx + 1) % tick_num_slots

====
